---- MODULE Spec2Model ----
(***************************************************************************)
(* A model of the LEGO dot printer control program (src/main.py): the Axis *)
(* and Pen classes, the path planner get_range_args, the PBM line reader   *)
(* and the printing() job, driving three motors of the hub.                *)
(*                                                                         *)
(* The specifications share the variables:                                 *)
(*   SpecAxis   a client calls the moving methods of one Axis, with every  *)
(*              configuration the constructor accepts;                     *)
(*   SpecPrint  the printing() job of the main program over a PBM file;    *)
(*   SpecPrintFair  SpecPrint over its narrow pictures, with the program  *)
(*              running on and the motors reaching the positions they are  *)
(*              commanded to;                                              *)
(*   SpecMain   calibration() and then the printing() job;                 *)
(*   SpecGaps   get_line over a picture with a blank raw line in it;       *)
(*   SpecRange  the pure function get_range_args over bounded inputs;      *)
(*   SpecCal    calibrate_zero, calibrate_end and set_steps on the axes of *)
(*              the main program, the settings file, and later runs;       *)
(*   SpecCalFair  SpecCal with the steps of the program taken when they    *)
(*              stay enabled.                                              *)
(*   SpecHeader the pure function picture_dimensions over bounded files;   *)
(*   SpecLines  get_line called until the end of a picture's rows;         *)
(*   SpecPen    a client calls run_to_absolute_position on the pen motor;  *)
(*   SpecConfig a client makes an Axis and passes modes, positions and     *)
(*              directions, valid or not;                                  *)
(*   SpecStep   the pure function _calculate_step over bounded inputs.     *)
(***************************************************************************)
EXTENDS Integers, Sequences, FiniteSets, TLC

(***************************************************************************)
(* The fields of the records of the model.  Every record constructor below *)
(* lists its fields in the order of this definition: TLC orders the fields *)
(* of a record by the first occurrence of their names in the module, and   *)
(* its workers must find every constructed record already in that order.   *)
(***************************************************************************)
FieldOrder(r) ==
    <<r.name, r.axis, r.position, r.steps, r.wait, r.mode,
      r.motor, r.cmd, r.arg,
      r.pos, r.target, r.busy,
      r.gear_ratio, r.wheel_diameter, r.dot_dimension, r.speed, r.direction,
      r.sensor, r.backlash_correction, r.correction_value, r.correction_step,
      r.step, r.end, r.length,
      r.line, r.remainder, r.reached_end, r.fpos, r.width, r.height, r.error,
      r.axis_position, r.axis_step, r.to_nearest, r.result, r.visited,
      r.zero_colors, r.end_colors,
      r.first_color, r.second_color, r.set_as_zero, r.phase, r.value,
      r.caller, r.dot_dim, r.correction, r.wheel_dim,
      r.comments, r.entries, r.separator, r.junk, r.padded,
      r.cells, r.rows, r.wrap>>

(***************************************************************************)
(* Program constants (src/main.py, lines 56-118).                          *)
(***************************************************************************)
DOT_DIMENSION == 1
CORRECTION_VALUE == 1
PEN_DRAWS == 80
PEN_DOESNT_DRAW == 100
X_GEAR_RATIO == 8
Y_GEAR_RATIO == 24
X_WHEEL_DIAMETER == 24
Y_WHEEL_DIAMETER == 56
X_SPEED == 100
Y_SPEED == 100
PEN_SPEED == 100
X_ZERO_COLOR == "red"
X_ZERO_COLOR_2 == "black"
X_END_COLOR == "yellow"
SHORTEST_PATH == TRUE
BACKLASH_CORRECTION == TRUE
\* math.pi as the rational PiNum / PiDen (355/113, exact to 3e-7: the
\* rounding in _calculate_step is the same for every geometry used here).
PiNum == 355
PiDen == 113
\* The key of the settings file: the module's __name__.
ModuleName == "__main__"

(***************************************************************************)
(* Bounds of the model.                                                    *)
(***************************************************************************)
\* The end positions a settings file may hold are EndBound and -EndBound.
EndBound == 80
\* Steps-mode positions a client passes: -MaxSteps..MaxSteps.
MaxSteps == 3
\* move_steps counts a client passes: -MaxCount..MaxCount.
MaxCount == 2
\* A client calls a method only while the motor is within this distance of 0.
PosBound == 120
\* The pictures printed are at most MaxWidth cells wide and MaxHeight lines high.
MaxWidth == 3
MaxHeight == 2
\* _calculate_step is called with the distances of at most MaxDistance
\* units, DistanceScale units being one millimetre.
MaxDistance == 100
DistanceScale == 10
\* get_range_args is called on the lines of at most MaxLineLen cells, at the
\* axis positions -1..MaxAxisPosition, with the axis steps 1..MaxAxisStep.
MaxLineLen == 6
MaxAxisPosition == 9
MaxAxisStep == 2

(***************************************************************************)
(* Python values.                                                          *)
(***************************************************************************)
None == << >>
Some(v) == <<v>>
Val(o) == o[1]

Abs(n) == IF n < 0 THEN -n ELSE n
Min(a, b) == IF a <= b THEN a ELSE b
Max(a, b) == IF a >= b THEN a ELSE b
\* int(a / b) for b > 0: the quotient truncated toward zero.
IntDiv(a, b) == IF a >= 0 THEN a \div b ELSE -((-a) \div b)

Motors == {"x", "y", "pen"}
Axes == {"x", "y"}
VALID_DIRECTIONS == {-1, 1}
valid_modes == {"degrees", "steps"}

VARIABLES
    settings,          \* settings.txt: None, or Some([name, end]), its two lines
    axis,              \* the Axis objects x_axis, y_axis (their fields)
    motor,             \* the motor devices: [pos, target, busy]
    abs_offset,        \* per motor: absolute position - relative position
    sensor_color,      \* the colour the sensor of the X axis reports now
    drive,             \* per motor: the signed speed of run_at_speed, 0 if none
    stored_by,         \* the axis whose calibrate_end wrote settings.txt
    pc,                \* the place of the one control task
    ret,               \* where the running Axis/Pen method returns to
    op,                \* the running (or last) method call and its arguments
    current_position,  \* the position the running method read from its motor
    cmds,              \* the motor commands issued, in order
    err,               \* the exception the call or the job ended with
    picture,           \* the PBM file: its raw lines, each a sequence of characters
    fpos,              \* the number of raw lines read from the file
    picture_width,     \* printing(): the width read from the header
    rest_of_line,      \* printing(): the cells read beyond the current scanline
    line,              \* printing(): the current scanline
    range_args,        \* printing(): <<line_start, line_end, direction>>
    j,                 \* printing(): the column the for loop is at
    lines_done,        \* the number of scanlines processed so far
    dots,              \* the dots put so far: <<scanline, X position in degrees>>
    range_call,        \* a call of a function of the program and its result
    warnings           \* what error_warning has shown: <<name, description>>

axisVars == <<settings, axis, abs_offset, sensor_color, drive, stored_by>>
callVars == <<ret, op, current_position>>
jobVars == <<picture, fpos, picture_width, rest_of_line, line, range_args, j,
             lines_done, dots>>
vars == <<settings, axis, motor, abs_offset, sensor_color, drive, stored_by, pc, ret, op, current_position, cmds, err,
          picture, fpos, picture_width, rest_of_line, line, range_args, j,
          lines_done, dots, range_call, warnings>>

(***************************************************************************)
(* Python text: lines are sequences of characters; rstrip, split, int and  *)
(* str work on them character by character.                               *)
(***************************************************************************)
\* The whitespace str.rstrip() and str.split() take away.
Whitespace == {" ", "\t", "\n", "\r"}
DigitChars == <<"0", "1", "2", "3", "4", "5", "6", "7", "8", "9">>

\* file.readline(), without the newline: the empty line at the end of file.
ReadLine(file, pos) == IF pos < Len(file) THEN file[pos + 1] ELSE << >>

RECURSIVE rstrip(_)
rstrip(str) ==
    IF str # << >> /\ str[Len(str)] \in Whitespace
    THEN rstrip(SubSeq(str, 1, Len(str) - 1))
    ELSE str

IsNotSpace(c) == c # " "
\* str.replace(' ', '')
RemoveSpaces(str) == SelectSeq(str, IsNotSpace)

\* str.split(): the maximal runs of non-whitespace characters.
RECURSIVE split(_, _, _)
split(str, token, tokens) ==
    IF str = << >>
    THEN IF token = << >> THEN tokens ELSE Append(tokens, token)
    ELSE IF Head(str) \in Whitespace
    THEN split(Tail(str), << >>,
               IF token = << >> THEN tokens ELSE Append(tokens, token))
    ELSE split(Tail(str), Append(token, Head(str)), tokens)

DigitValue(c) == (CHOOSE d \in 1..10 : DigitChars[d] = c) - 1
IsDigit(c) == \E d \in 1..10 : DigitChars[d] = c

RECURSIVE DigitsValue(_, _)
DigitsValue(str, acc) ==
    IF str = << >> THEN acc
    ELSE DigitsValue(Tail(str), 10 * acc + DigitValue(Head(str)))

\* int(token) succeeds: an optional sign and decimal digits.
IsInt(token) ==
    LET digits == IF token # << >> /\ Head(token) \in {"-", "+"}
                  THEN Tail(token) ELSE token
    IN  digits # << >> /\ \A i \in 1..Len(digits) : IsDigit(digits[i])

\* int(token)
ToInt(token) ==
    IF Head(token) = "-" THEN -DigitsValue(Tail(token), 0)
    ELSE IF Head(token) = "+" THEN DigitsValue(Tail(token), 0)
    ELSE DigitsValue(token, 0)

\* str(n) of an integer: its decimal digits, after a minus sign if negative.
RECURSIVE Digits(_)
Digits(n) ==
    IF n < 10 THEN <<DigitChars[n + 1]>>
    ELSE Append(Digits(n \div 10), DigitChars[(n % 10) + 1])

str(n) == IF n < 0 THEN <<"-">> \o Digits(-n) ELSE Digits(n)

(***************************************************************************)
(* Axis: construction.                                                     *)
(***************************************************************************)
\* A variant of _calculate_step that counts the degrees within one turn.
_calculate_step_within_turn(dot_dim, gear_ratio, wheel_diameter) ==
    ((2 * 360 * dot_dim * gear_ratio * PiDen + PiNum * wheel_diameter)
        \div (2 * PiNum * wheel_diameter)) % 360

\* int(round(360 * dot_dim * gear_ratio / (pi * wheel_diameter)))
_calculate_step(dot_dim, gear_ratio, wheel_diameter) ==
    (2 * 360 * dot_dim * gear_ratio * PiDen + PiNum * wheel_diameter)
        \div (2 * PiNum * wheel_diameter)

\* _read_end_from_file(): the second line of settings.txt as an integer, if
\* the file is there and its first line is __name__.
_read_end_from_file(file) ==
    IF file # None /\ Val(file).name = ModuleName
    THEN Some(ToInt(rstrip(Val(file).end)))
    ELSE None

_calculate_length(end, step) ==
    IF end = None THEN None ELSE Some(IntDiv(Val(end), step))

\* Axis.__init__ (a direction outside VALID_DIRECTIONS raises ValueError).
AxisInit(gear_ratio, wheel_diameter, dot_dimension, speed, direction, sensor, zero_colors, end_colors, backlash_correction, correction_value, file) ==
    LET step == _calculate_step(dot_dimension, gear_ratio, wheel_diameter)
        end == _read_end_from_file(file)
    IN  [gear_ratio |-> gear_ratio,
         wheel_diameter |-> wheel_diameter,
         dot_dimension |-> dot_dimension,
         speed |-> speed,
         direction |-> direction,
         sensor |-> sensor,
         backlash_correction |-> backlash_correction,
         correction_value |-> correction_value,
         correction_step |-> _calculate_step(correction_value, gear_ratio,
                                             wheel_diameter),
         step |-> step,
         end |-> end,
         length |-> _calculate_length(end, step),
         zero_colors |-> zero_colors,
         end_colors |-> end_colors]

(***************************************************************************)
(* The motor device: run_to_position(target, speed) starts a motion, and   *)
(* busy(1) holds until the motion is done; get()[1] is the position.       *)
(***************************************************************************)
MotorIdle(p) == [pos |-> p, target |-> p, busy |-> FALSE]

MotorRun(mot, m, target) ==
    [mot EXCEPT ![m] = [@ EXCEPT !.target = target, !.busy = TRUE]]

Cmd(m, target) == [motor |-> m, cmd |-> "run_to_position", arg |-> target]

\* The motor m finishes the motion it was commanded.
MotorDone(m) ==
    /\ motor[m].busy
    /\ motor' = [motor EXCEPT ![m] = MotorIdle(motor[m].target)]
    /\ UNCHANGED <<axisVars, callVars, jobVars, pc, cmds, err,
                   range_call, warnings>>

(***************************************************************************)
(* Axis: the moving methods.                                               *)
(***************************************************************************)
\* A variant of _check_target that checks the upper limit only.
_check_target_upper_only(a, target_position) ==
    \/ axis[a].end = None
    \/ target_position <= Max(Val(axis[a].end), 0)

\* _check_target passes (does not raise).
_check_target(a, target_position) ==
    \/ axis[a].end = None
    \/ /\ Min(Val(axis[a].end), 0) <= target_position
       /\ target_position <= Max(Val(axis[a].end), 0)

\* A variant of wait_until_motion_done that never sees the motor at rest.
wait_until_motion_done_never(a) == FALSE

\* A variant of wait_until_motion_done that does not poll the motor.
wait_until_motion_done_skipped(a) == TRUE

\* wait_until_motion_done leaves its polling loop.
wait_until_motion_done(a) == ~motor[a].busy

\* An exception leaves the method: to the client, or out of the print job.
Raise(e) ==
    /\ err' = e
    /\ pc' = IF ret = "returned" THEN "returned" ELSE "failed"

\* A variant of rtp_target that takes the position as degrees in both modes.
rtp_target_unconverted(a, position, mode) == position

\* run_to_position: the target in degrees.
rtp_target(a, position, mode) ==
    IF mode = "degrees" THEN position ELSE axis[a].step * position

\* A variant of rtp_overshoots that overshoots whatever the side of the target.
rtp_overshoots_always(a, target, current) == axis[a].backlash_correction

\* run_to_position: whether the overshoot move is made first.
rtp_overshoots(a, target, current) ==
    target < current /\ axis[a].backlash_correction

\* run_to_position, from the entry to its first motor command.
run_to_position ==
    /\ pc = "run_to_position"
    /\ LET a == op.axis
           target == rtp_target(a, op.position, op.mode)
           current == motor[a].pos
       IN  IF op.mode \notin valid_modes
           THEN /\ Raise("ValueError")
                /\ UNCHANGED <<motor, cmds, current_position>>
           ELSE IF ~_check_target(a, target)
           THEN /\ Raise("LimitViolation")
                /\ UNCHANGED <<motor, cmds, current_position>>
           ELSE /\ current_position' = current
                /\ err' = err
                /\ IF rtp_overshoots(a, target, current)
                   THEN /\ motor' = MotorRun(motor, a,
                                             target - axis[a].correction_step)
                        /\ cmds' = Append(cmds,
                                     Cmd(a, target - axis[a].correction_step))
                        /\ pc' = "rtp_overshoot"
                   ELSE /\ motor' = MotorRun(motor, a, target)
                        /\ cmds' = Append(cmds, Cmd(a, target))
                        /\ pc' = IF op.wait THEN "rtp_wait" ELSE ret
    /\ UNCHANGED <<axisVars, jobVars, ret, op, range_call, warnings>>

\* run_to_position: the overshoot is done, the real target is commanded.
rtp_overshoot_done ==
    /\ pc = "rtp_overshoot"
    /\ wait_until_motion_done(op.axis)
    /\ LET a == op.axis
           target == rtp_target(a, op.position, op.mode)
       IN  /\ motor' = MotorRun(motor, a, target)
           /\ cmds' = Append(cmds, Cmd(a, target))
    /\ pc' = IF op.wait THEN "rtp_wait" ELSE ret
    /\ UNCHANGED <<axisVars, jobVars, callVars, err, range_call, warnings>>

\* run_to_position: the final wait, when wait is true.
rtp_wait_done ==
    /\ pc = "rtp_wait"
    /\ wait_until_motion_done(op.axis)
    /\ pc' = ret
    /\ UNCHANGED <<axisVars, jobVars, callVars, motor, cmds, err,
                   range_call, warnings>>

\* move_steps: the target in degrees.
move_steps_target(a, steps, current) ==
    current + axis[a].step * axis[a].direction * steps

\* move_steps: whether the motor is commanded.
move_steps_runs(wait) == wait

move_steps ==
    /\ pc = "move_steps"
    /\ LET a == op.axis
           current == motor[a].pos
           target == move_steps_target(a, op.steps, current)
       IN  /\ current_position' = current
           /\ IF ~_check_target(a, target)
              THEN /\ Raise("LimitViolation")
                   /\ UNCHANGED <<motor, cmds>>
              ELSE /\ err' = err
                   /\ pc' = ret
                   /\ IF move_steps_runs(op.wait)
                      THEN /\ motor' = MotorRun(motor, a, target)
                           /\ cmds' = Append(cmds, Cmd(a, target))
                      ELSE UNCHANGED <<motor, cmds>>
    /\ UNCHANGED <<axisVars, jobVars, ret, op, range_call, warnings>>

\* A variant of go_home that goes through run_to_position and waits.
go_home_through_run_to_position ==
    /\ pc = "go_home"
    /\ op' = [name |-> "run_to_position", axis |-> op.axis, position |-> 0,
              wait |-> TRUE, mode |-> "steps"]
    /\ pc' = "run_to_position"
    /\ UNCHANGED <<axisVars, jobVars, ret, current_position, motor, cmds, err,
                   range_call, warnings>>

go_home ==
    /\ pc = "go_home"
    /\ motor' = MotorRun(motor, op.axis, 0)
    /\ cmds' = Append(cmds, Cmd(op.axis, 0))
    /\ pc' = ret
    /\ UNCHANGED <<axisVars, jobVars, callVars, err, range_call, warnings>>

(***************************************************************************)
(* SpecAxis: a client of one Axis.                                         *)
(***************************************************************************)
TestAxis == "x"

StoredEnds == {EndBound, -EndBound}
SettingsFiles ==
    {None} \cup {Some([name |-> ModuleName, end |-> str(e)]) : e \in StoredEnds}

StepInputs == (-MaxSteps)..MaxSteps
CountInputs == (-MaxCount)..MaxCount
DegreeInputs == {-(EndBound + 1), -EndBound, 0, EndBound, EndBound + 1}

NoOp == [name |-> "none"]
NoCall == [result |-> << >>]

\* No print job is running.
NoJob ==
    /\ picture = << >>
    /\ fpos = 0
    /\ picture_width = 0
    /\ rest_of_line = << >>
    /\ line = << >>
    /\ range_args = <<0, 0, 1>>
    /\ j = 0
    /\ lines_done = 0
    /\ dots = << >>

\* The gearings the tested Axis is made with: the X axis of the printer,
\* and a gear ratio 3 on a wheel of 19 mm, which makes a step of 18 degrees.
AxisGearings == {<<X_GEAR_RATIO, X_WHEEL_DIAMETER>>, <<3, 19>>}

InitAxis ==
    /\ settings \in SettingsFiles
    /\ \E direction \in VALID_DIRECTIONS, backlash \in BOOLEAN,
          gearing \in AxisGearings :
         axis = [a \in Axes |->
                   IF a = "x"
                   THEN AxisInit(gearing[1], gearing[2], DOT_DIMENSION,
                                 X_SPEED, direction, TRUE,
                                 <<X_ZERO_COLOR, X_ZERO_COLOR_2>>,
                                 <<X_END_COLOR>>, backlash,
                                 CORRECTION_VALUE, settings)
                   ELSE AxisInit(Y_GEAR_RATIO, Y_WHEEL_DIAMETER, DOT_DIMENSION,
                                 Y_SPEED, 1, FALSE, <<"0", "0">>,
                                 <<"0", "0">>, FALSE, 0, settings)]
    /\ motor = [m \in Motors |-> MotorIdle(0)]
    /\ abs_offset = [m \in Motors |-> 0]
    /\ sensor_color = None
    /\ drive = [m \in Motors |-> 0]
    /\ stored_by = IF settings = None THEN "none" ELSE "x"
    /\ pc = "idle"
    /\ ret = "returned"
    /\ op = NoOp
    /\ current_position = 0
    /\ cmds = << >>
    /\ err = "none"
    /\ NoJob
    /\ range_call = NoCall
    /\ warnings = {}

Call(o) ==
    /\ pc = "idle"
    /\ Abs(motor[o.axis].pos) <= PosBound
    /\ op' = o
    /\ pc' = o.name
    /\ UNCHANGED <<axisVars, jobVars, motor, ret, current_position, cmds, err,
                   range_call, warnings>>

\* The client takes the outcome of the call; the next call starts afresh.
Return ==
    /\ pc = "returned"
    /\ pc' = "idle"
    /\ op' = NoOp
    /\ current_position' = 0
    /\ cmds' = << >>
    /\ err' = "none"
    /\ UNCHANGED <<axisVars, jobVars, motor, ret, range_call, warnings>>

CallRunToPosition ==
    \E mode \in valid_modes, wait \in BOOLEAN :
      \E position \in (IF mode = "steps" THEN StepInputs ELSE DegreeInputs) :
        Call([name |-> "run_to_position", axis |-> TestAxis,
              position |-> position, wait |-> wait, mode |-> mode])

CallMoveSteps ==
    \E steps \in CountInputs, wait \in BOOLEAN :
        Call([name |-> "move_steps", axis |-> TestAxis,
              steps |-> steps, wait |-> wait])

CallGoHome == Call([name |-> "go_home", axis |-> TestAxis])

NextAxis ==
    \/ CallRunToPosition
    \/ CallMoveSteps
    \/ CallGoHome
    \/ Return
    \/ run_to_position
    \/ rtp_overshoot_done
    \/ rtp_wait_done
    \/ move_steps
    \/ go_home
    \/ MotorDone(TestAxis)

SpecAxis == InitAxis /\ [][NextAxis]_vars

(***************************************************************************)
(* Axis: calibration against the colour sensor, and set_steps.  The motor  *)
(* driven by run_at_speed turns until brake; the sensor reports the colour *)
(* under it, which changes as the carriage moves.                          *)
(***************************************************************************)
\* _run_until_color: the palette of the sensor.
color_values ==
    ("black" :> 0) @@ ("violet" :> 1) @@ ("blue" :> 3) @@ ("cyan" :> 4)
    @@ ("green" :> 5) @@ ("yellow" :> 7) @@ ("red" :> 9) @@ ("white" :> 10)

\* color_values.get(color), for a colour given by its name.
color_value(color) ==
    IF color \in DOMAIN color_values THEN Some(color_values[color]) ELSE None

\* A command to a motor device other than run_to_position.
DeviceCmd(m, c, arg) == [motor |-> m, cmd |-> c, arg |-> arg]

\* The call calibrate(*colors, set_as_zero=..., direction=...).
CalibrateCall(a, colors, set_as_zero, direction, caller) ==
    [name |-> "calibrate",
     axis |-> a,
     direction |-> direction,
     first_color |-> IF Len(colors) >= 1 THEN colors[1] ELSE "0",
     second_color |-> IF Len(colors) >= 2 THEN colors[2] ELSE "0",
     set_as_zero |-> set_as_zero,
     phase |-> 1,
     value |-> None,
     caller |-> caller]

\* calibrate_zero: calibrate(*zero_colors, direction=-self.direction).
calibrate_zero ==
    /\ pc = "calibrate_zero"
    /\ op' = CalibrateCall(op.axis, axis[op.axis].zero_colors, TRUE,
                           -axis[op.axis].direction, "calibrate_zero")
    /\ pc' = "calibrate"
    /\ UNCHANGED <<axisVars, jobVars, motor, ret, current_position, cmds, err,
                   range_call, warnings>>

\* A variant of cal_first_step that does not ask for a sensor.
cal_first_step_without_sensor(a, first_color) == first_color # "0"

\* calibrate: the first step is made for a colour, by an axis with a sensor.
cal_first_step(a, first_color) == first_color # "0" /\ axis[a].sensor

\* calibrate: whether the first step is made.
calibrate ==
    /\ pc = "calibrate"
    /\ pc' = IF cal_first_step(op.axis, op.first_color)
             THEN "ruc_check"
             ELSE "cal_preset"
    /\ UNCHANGED <<axisVars, jobVars, callVars, motor, cmds, err,
                   range_call, warnings>>

\* The colour and the direction of the running step of calibrate.
ruc_color(o) == IF o.phase = 1 THEN o.first_color ELSE o.second_color

\* A variant of ruc_direction that makes the second step the way of the first.
ruc_direction_kept(o) == o.direction

ruc_direction(o) == IF o.phase = 1 THEN o.direction ELSE -o.direction

\* A variant of ruc_found that also takes the lack of any colour for it.
ruc_found_or_dark(reading, color) ==
    reading = color_value(color) \/ reading = None

\* _run_until_color: the sensor reports the colour looked for.
ruc_found(reading, color) == reading = color_value(color)

\* calibrate: the second step follows the first if second_color is given.
ruc_second(o) == o.phase = 1 /\ o.second_color # "0"

\* _run_until_color returns into calibrate.
ruc_return ==
    /\ pc' = IF ruc_second(op) THEN "ruc_check" ELSE "cal_preset"
    /\ op' = [op EXCEPT !.phase = IF ruc_second(op) THEN 2 ELSE @]

\* _run_until_color: the first reading; the motor is started unless the
\* colour is already there.
ruc_check ==
    /\ pc = "ruc_check"
    /\ LET a == op.axis
           speed == axis[a].speed * ruc_direction(op)
       IN  IF ruc_found(sensor_color, ruc_color(op))
           THEN /\ ruc_return
                /\ UNCHANGED <<drive, cmds>>
           ELSE /\ drive' = [drive EXCEPT ![a] = speed]
                /\ cmds' = Append(cmds, DeviceCmd(a, "run_at_speed", speed))
                /\ pc' = "ruc_poll"
                /\ op' = op
    /\ UNCHANGED <<settings, axis, abs_offset, sensor_color, stored_by, jobVars,
                   motor, ret, current_position, err, range_call, warnings>>

\* _run_until_color: the polling loop reads the colour and brakes the motor.
\* A reading of another colour leaves the loop where it is.
ruc_poll ==
    /\ pc = "ruc_poll"
    /\ ruc_found(sensor_color, ruc_color(op))
    /\ drive' = [drive EXCEPT ![op.axis] = 0]
    /\ cmds' = Append(cmds, DeviceCmd(op.axis, "brake", 0))
    /\ ruc_return
    /\ UNCHANGED <<settings, axis, abs_offset, sensor_color, stored_by, jobVars,
                   motor, ret, current_position, err, range_call, warnings>>

\* calibrate: the preset of the position if set_as_zero, and the position
\* returned.
cal_preset ==
    /\ pc = "cal_preset"
    /\ LET a == op.axis
           p == motor[a].pos
       IN  IF op.set_as_zero
           THEN /\ motor' = [motor EXCEPT ![a] = [pos |-> 0,
                                                  target |-> @.target - p,
                                                  busy |-> @.busy]]
                /\ abs_offset' = [abs_offset EXCEPT ![a] = (@ + p) % 360]
                /\ cmds' = Append(cmds, DeviceCmd(a, "preset", 0))
                /\ op' = [op EXCEPT !.value = Some(0)]
           ELSE /\ UNCHANGED <<motor, abs_offset, cmds>>
                /\ op' = [op EXCEPT !.value = Some(p)]
    /\ pc' = IF op.caller = "calibrate_end" THEN "calibrate_end_store" ELSE ret
    /\ UNCHANGED <<settings, axis, sensor_color, drive, stored_by, jobVars, ret,
                   current_position, err, range_call, warnings>>

\* A variant of calibrate_end_cached that tests "not self.end": an end of 0
\* counts as unknown.
calibrate_end_cached_unless_zero(a) ==
    axis[a].end # None /\ Val(axis[a].end) # 0

\* A variant of calibrate_end_cached that never takes the end for known.
calibrate_end_cached_never(a) == FALSE

\* calibrate_end: the end is known already.
calibrate_end_cached(a) == axis[a].end # None

\* calibrate_end: with end known, the length is set again and end returned;
\* otherwise calibrate(*end_colors, set_as_zero=False, direction=direction).
calibrate_end ==
    /\ pc = "calibrate_end"
    /\ LET a == op.axis
       IN  IF calibrate_end_cached(a)
           THEN /\ axis' = [axis EXCEPT ![a].length =
                              Some(IntDiv(Val(axis[a].end), axis[a].step))]
                /\ op' = [op EXCEPT !.value = axis[a].end]
                /\ pc' = ret
           ELSE /\ op' = CalibrateCall(a, axis[a].end_colors, FALSE,
                                       axis[a].direction, "calibrate_end")
                /\ pc' = "calibrate"
                /\ axis' = axis
    /\ UNCHANGED <<settings, abs_offset, sensor_color, drive, stored_by, jobVars,
                   motor, ret, current_position, cmds, err,
                   range_call, warnings>>

\* A variant of settings_written that leaves out the newline after __name__.
settings_written_on_one_line(end) ==
    Some([name |-> "__main__<end>", end |-> << >>])

\* The two lines calibrate_end writes to settings.txt.
settings_written(end) == Some([name |-> ModuleName, end |-> str(end)])

\* calibrate_end: the position calibrate returned becomes end, is written to
\* settings.txt and gives the length.
calibrate_end_store ==
    /\ pc = "calibrate_end_store"
    /\ LET a == op.axis
           end == Val(op.value)
       IN  /\ axis' = [axis EXCEPT ![a].end = Some(end),
                                   ![a].length = Some(IntDiv(end, axis[a].step))]
           /\ settings' = settings_written(end)
           /\ stored_by' = a
    /\ pc' = ret
    /\ UNCHANGED <<abs_offset, sensor_color, drive, jobVars, motor, callVars,
                   cmds, err, range_call, warnings>>

\* set_steps(dot_dim, correction, gear_ratio, wheel_dim)
set_steps ==
    /\ pc = "set_steps"
    /\ axis' = [axis EXCEPT ![op.axis] =
                  [@ EXCEPT !.dot_dimension = op.dot_dim,
                            !.gear_ratio = op.gear_ratio,
                            !.wheel_diameter = op.wheel_dim,
                            !.correction_value = op.correction,
                            !.correction_step =
                                _calculate_step(op.correction, op.gear_ratio,
                                                op.wheel_dim),
                            !.step = _calculate_step(op.dot_dim, op.gear_ratio,
                                                     op.wheel_dim)]]
    /\ pc' = ret
    /\ UNCHANGED <<settings, abs_offset, sensor_color, drive, stored_by, jobVars,
                   motor, callVars, cmds, err, range_call, warnings>>

(***************************************************************************)
(* Pen: put_dot is put_down then put_up, each a run_to_absolute_position   *)
(* that ends by waiting for the pen motor.                                 *)
(***************************************************************************)
\* motor.get()[2] % 360
AbsolutePosition(m) == (motor[m].pos + abs_offset[m]) % 360

\* A variant of run_to_absolute_position_target that always turns clockwise.
run_to_absolute_position_clockwise(relative_position, absolute_position, position, direction) ==
    relative_position + ((position - absolute_position) % 360)

\* run_to_absolute_position: the relative target it commands.
run_to_absolute_position_target(relative_position, absolute_position, position, direction) ==
    LET angle_difference == position - absolute_position
        clockwise == IF absolute_position > position
                     THEN angle_difference + 360
                     ELSE angle_difference
        counterclockwise == IF absolute_position > position
                            THEN angle_difference
                            ELSE angle_difference - 360
    IN  IF direction = "shortest path"
        THEN IF Abs(clockwise) < Abs(counterclockwise)
             THEN relative_position + clockwise
             ELSE relative_position + counterclockwise
        ELSE IF direction = "clockwise"
        THEN relative_position + clockwise
        ELSE relative_position + counterclockwise

PenTarget(position) ==
    run_to_absolute_position_target(motor["pen"].pos, AbsolutePosition("pen"),
                                    position, "shortest path")

\* A variant of rtap_done that does not wait for the motor.
rtap_done_at_once(m) == TRUE

\* run_to_absolute_position: the loop `while motor.busy(1)` is left.
rtap_done(m) == ~motor[m].busy

valid_directions == {"shortest path", "clockwise", "counterclockwise"}

\* A variant of rtap_position_valid that lets a full turn through.
rtap_position_valid_to_360(position) == 0 <= position /\ position <= 360

\* run_to_absolute_position: 0 <= position <= 359
rtap_position_valid(position) == 0 <= position /\ position <= 359

\* run_to_absolute_position(motor, position, speed, direction): the
\* arguments are checked and the motor is commanded.
run_to_absolute_position ==
    /\ pc = "run_to_absolute_position"
    /\ LET m == op.motor
           target == run_to_absolute_position_target(
                         motor[m].pos, AbsolutePosition(m), op.position,
                         op.direction)
       IN  IF ~rtap_position_valid(op.position)
              \/ op.direction \notin valid_directions
           THEN /\ Raise("ValueError")
                /\ UNCHANGED <<motor, cmds>>
           ELSE /\ motor' = MotorRun(motor, m, target)
                /\ cmds' = Append(cmds, Cmd(m, target))
                /\ pc' = "rtap_wait"
                /\ err' = err
    /\ UNCHANGED <<axisVars, jobVars, callVars, range_call, warnings>>

\* run_to_absolute_position returns once the motor is not busy.
rtap_wait ==
    /\ pc = "rtap_wait"
    /\ rtap_done(op.motor)
    /\ pc' = ret
    /\ UNCHANGED <<axisVars, jobVars, callVars, motor, cmds, err,
                   range_call, warnings>>

\* put_down: the pen motor is commanded to the drawing position.
put_down ==
    /\ pc = "put_down"
    /\ motor' = MotorRun(motor, "pen", PenTarget(PEN_DRAWS))
    /\ cmds' = Append(cmds, Cmd("pen", PenTarget(PEN_DRAWS)))
    /\ dots' = Append(dots, <<lines_done, motor["x"].pos>>)
    /\ pc' = "put_down_wait"
    /\ UNCHANGED <<axisVars, callVars, err, picture, fpos, picture_width,
                   rest_of_line, line, range_args, j, lines_done,
                   range_call, warnings>>

\* put_down has waited for the pen motor; put_up commands it back.
put_up ==
    /\ pc = "put_down_wait"
    /\ rtap_done("pen")
    /\ motor' = MotorRun(motor, "pen", PenTarget(PEN_DOESNT_DRAW))
    /\ cmds' = Append(cmds, Cmd("pen", PenTarget(PEN_DOESNT_DRAW)))
    /\ pc' = "put_up_wait"
    /\ UNCHANGED <<axisVars, callVars, jobVars, err, range_call, warnings>>

\* put_up has waited for the pen motor: put_dot returns.
put_dot_done ==
    /\ pc = "put_up_wait"
    /\ rtap_done("pen")
    /\ pc' = ret
    /\ UNCHANGED <<axisVars, callVars, jobVars, motor, cmds, err,
                   range_call, warnings>>

(***************************************************************************)
(* The PBM file and its readers.                                           *)
(***************************************************************************)
\* A variant of skip_comments that takes the first line it reads.
skip_comments_none(file, pos) == pos + 1

\* picture_dimensions: the file position after the comment lines and the
\* line that follows them.
RECURSIVE skip_comments(_, _)
skip_comments(file, pos) ==
    LET text == ReadLine(file, pos)
    IN  IF text # << >> /\ Head(text) = "#"
        THEN skip_comments(file, pos + 1)
        ELSE pos + 1

\* A variant of dims_invalid that looks at the width only.
dims_invalid_width_only(width, height) == width < 1

\* picture_dimensions: width < 1 or height < 1
dims_invalid(width, height) == width < 1 \/ height < 1

\* picture_dimensions(file), reading from position pos.
picture_dimensions(file, pos) ==
    LET after == skip_comments(file, pos)
        tokens == split(ReadLine(file, after - 1), << >>, << >>)
    IN  IF Len(tokens) # 2 \/ ~IsInt(tokens[1]) \/ ~IsInt(tokens[2])
        THEN [fpos |-> after, width |-> 0, height |-> 0,
              error |-> "FormatError"]
        ELSE IF dims_invalid(ToInt(tokens[1]), ToInt(tokens[2]))
        THEN [fpos |-> after, width |-> ToInt(tokens[1]),
              height |-> ToInt(tokens[2]), error |-> "DimensionError"]
        ELSE [fpos |-> after, width |-> ToInt(tokens[1]),
              height |-> ToInt(tokens[2]), error |-> "none"]

\* get_line: the while loop that fills the line from the file.
RECURSIVE get_line_fill(_, _, _, _)
get_line_fill(file, pos, cells, width) ==
    IF Len(cells) >= width
    THEN [line |-> cells, reached_end |-> FALSE, fpos |-> pos]
    ELSE LET content == RemoveSpaces(rstrip(ReadLine(file, pos)))
         IN  IF content # << >>
             THEN get_line_fill(file, pos + 1, cells \o content, width)
             ELSE [line |-> cells, reached_end |-> TRUE, fpos |-> pos + 1]

\* A variant of get_line that forgets the remainder of the call before.
get_line_without_remainder(file, pos, remainder, width) ==
    LET filled == get_line_fill(file, pos, << >>, width)
        n == Len(filled.line)
    IN  [line |-> SubSeq(filled.line, 1, Min(width, n)),
         remainder |-> SubSeq(filled.line, width + 1, n),
         reached_end |-> filled.reached_end,
         fpos |-> filled.fpos]

\* A variant of get_line that hands the row it returns on to the next call.
get_line_row_kept(file, pos, remainder, width) ==
    LET filled == get_line_fill(file, pos, remainder, width)
        n == Len(filled.line)
    IN  [line |-> SubSeq(filled.line, 1, Min(width, n)),
         remainder |-> filled.line,
         reached_end |-> filled.reached_end,
         fpos |-> filled.fpos]

\* get_line(file, remainder, width), reading from position pos.
get_line(file, pos, remainder, width) ==
    LET filled == get_line_fill(file, pos, remainder, width)
        n == Len(filled.line)
    IN  [line |-> SubSeq(filled.line, 1, Min(width, n)),
         remainder |-> SubSeq(filled.line, width + 1, n),
         reached_end |-> filled.reached_end,
         fpos |-> filled.fpos]

(***************************************************************************)
(* The path planner.                                                       *)
(***************************************************************************)
\* A variant of Indices that takes every cell of the line.
Indices_unfiltered(cells, dot_value) == 0..(Len(cells) - 1)

\* The indices (from 0) of the cells of the line that hold dot_value.
Indices(cells, dot_value) ==
    {i \in 0..(Len(cells) - 1) : cells[i + 1] = dot_value}

SetMin(S) == CHOOSE x \in S : \A y \in S : x <= y
SetMax(S) == CHOOSE x \in S : \A y \in S : x >= y

\* A variant of gra_descending that walks down on a tie too.
gra_descending_on_tie(to_nearest, distance_to_first, distance_to_last) ==
    to_nearest /\ distance_to_first >= distance_to_last

\* A variant of gra_descending that does not read to_nearest.
gra_descending_flag_ignored(to_nearest, distance_to_first, distance_to_last) ==
    distance_to_first > distance_to_last

\* get_range_args: whether the line is walked from its last mark down.
gra_descending(to_nearest, distance_to_first, distance_to_last) ==
    to_nearest /\ distance_to_first > distance_to_last

\* A variant of gra_down that stops at the first mark instead of before it.
gra_down_stops_at_first(first_index, last_index) ==
    <<last_index, first_index, -1>>

\* get_range_args: the triple that walks from the last mark down.
gra_down(first_index, last_index) == <<last_index, first_index - 1, -1>>

\* A variant of gra_no_mark that walks the whole line.
gra_no_mark_whole_line(cells) == <<0, Len(cells), 1>>

\* get_range_args: the triple for a line without dot_value.
gra_no_mark(cells) == <<0, 0, 1>>

\* get_range_args(line, axis_position, axis_step_, to_nearest, dot_value)
get_range_args(cells, axis_position, axis_step, to_nearest, dot_value) ==
    LET indices == Indices(cells, dot_value)
    IN  IF indices = {} THEN gra_no_mark(cells)
        ELSE LET first_index == SetMin(indices)
                 last_index == SetMax(indices)
                 distance_to_first == Abs(axis_position - first_index * axis_step)
                 distance_to_last == Abs(axis_position - last_index * axis_step)
             IN  IF gra_descending(to_nearest, distance_to_first,
                                   distance_to_last)
                 THEN gra_down(first_index, last_index)
                 ELSE <<first_index, last_index + 1, 1>>

\* range(start, stop, step), step # 0: the indices it yields, in order.
RECURSIVE range(_, _, _)
range(start, stop, step) ==
    IF (step > 0 /\ start >= stop) \/ (step < 0 /\ start <= stop)
    THEN << >>
    ELSE <<start>> \o range(start + step, stop, step)

\* range(start, stop, step) has not yet run past index i.
InRange(i, args) ==
    IF args[3] > 0 THEN i < args[2] ELSE i > args[2]

(***************************************************************************)
(* printing(image_path): the print job.                                    *)
(***************************************************************************)
\* A variant of width_exceeds that rejects the full width too.
width_exceeds_or_equal(width, length) == width >= length

\* A variant of width_exceeds that lets every width through.
width_exceeds_unchecked(width, length) == FALSE

\* printing: picture_width > x_axis.length
width_exceeds(width, length) == width > length

\* A variant of cell_is_marked that marks every cell.
cell_is_marked_always(cells, i) == TRUE

\* printing: line[j] == '1'
cell_is_marked(cells, i) == cells[i + 1] = "1"

\* The header is read and the width is checked against the X axis.
printing ==
    /\ pc = "printing"
    /\ LET dims == picture_dimensions(picture, 1)
       IN  /\ fpos' = dims.fpos
           /\ IF dims.error # "none"
              THEN /\ err' = dims.error
                   /\ pc' = "failed"
                   /\ UNCHANGED picture_width
              ELSE /\ picture_width' = dims.width
                   /\ IF axis["x"].length = None
                      THEN err' = "TypeError" /\ pc' = "failed"
                      ELSE IF width_exceeds(dims.width, Val(axis["x"].length))
                      THEN err' = "WidthExceeded" /\ pc' = "failed"
                      ELSE err' = err /\ pc' = "print_line"
    /\ UNCHANGED <<axisVars, callVars, motor, cmds, picture, rest_of_line,
                   line, range_args, j, lines_done, dots, range_call, warnings>>

\* The head of the while loop: the next scanline and its traversal range.
print_line ==
    /\ pc = "print_line"
    /\ LET got == get_line(picture, fpos, rest_of_line, picture_width)
       IN  /\ fpos' = got.fpos
           /\ line' = got.line
           /\ rest_of_line' = got.remainder
           /\ IF got.reached_end
              THEN /\ pc' = "print_home"
                   /\ UNCHANGED range_args
              ELSE /\ pc' = "print_wait_y"
                   /\ range_args' = get_range_args(got.line, motor["x"].pos,
                                                   axis["x"].step,
                                                   SHORTEST_PATH, "1")
    /\ UNCHANGED <<axisVars, callVars, motor, cmds, err, picture,
                   picture_width, j, lines_done, dots, range_call, warnings>>

\* y_axis.wait_until_motion_done(), then the for loop starts.
print_wait_y ==
    /\ pc = "print_wait_y"
    /\ wait_until_motion_done("y")
    /\ j' = range_args[1]
    /\ pc' = "print_dots"
    /\ UNCHANGED <<axisVars, callVars, motor, cmds, err, picture, fpos,
                   picture_width, rest_of_line, line, range_args, lines_done,
                   dots, range_call, warnings>>

\* The for loop: the cell at j is marked and the X axis is sent to it, or
\* it is not and the loop goes on; past the range, the line is done.
print_dots ==
    /\ pc = "print_dots"
    /\ IF ~InRange(j, range_args)
       THEN /\ pc' = "print_advance"
            /\ UNCHANGED <<ret, op, j>>
       ELSE IF cell_is_marked(line, j)
       THEN /\ op' = [name |-> "run_to_position", axis |-> "x",
                      position |-> j, wait |-> TRUE, mode |-> "steps"]
            /\ ret' = "print_put_dot"
            /\ pc' = "run_to_position"
            /\ UNCHANGED j
       ELSE /\ j' = j + range_args[3]
            /\ pc' = "print_dots"
            /\ UNCHANGED <<ret, op>>
    /\ UNCHANGED <<axisVars, current_position, motor, cmds, err, picture, fpos,
                   picture_width, rest_of_line, line, range_args, lines_done,
                   dots, range_call, warnings>>

\* pen.put_dot() is called.
print_put_dot ==
    /\ pc = "print_put_dot"
    /\ ret' = "print_next"
    /\ pc' = "put_down"
    /\ UNCHANGED <<axisVars, jobVars, op, current_position, motor, cmds, err,
                   range_call, warnings>>

\* The dot is put: the for loop goes on.
print_next ==
    /\ pc = "print_next"
    /\ j' = j + range_args[3]
    /\ pc' = "print_dots"
    /\ UNCHANGED <<axisVars, callVars, motor, cmds, err, picture, fpos,
                   picture_width, rest_of_line, line, range_args, lines_done,
                   dots, range_call, warnings>>

\* y_axis.move_steps(1) is called: the scanline is processed.
print_advance ==
    /\ pc = "print_advance"
    /\ op' = [name |-> "move_steps", axis |-> "y", steps |-> 1, wait |-> FALSE]
    /\ ret' = "print_line"
    /\ pc' = "move_steps"
    /\ lines_done' = lines_done + 1
    /\ UNCHANGED <<axisVars, current_position, motor, cmds, err, picture, fpos,
                   picture_width, rest_of_line, line, range_args, j, dots,
                   range_call, warnings>>

\* The picture is read to its end: x_axis.go_home() is called.
print_home ==
    /\ pc = "print_home"
    /\ op' = [name |-> "go_home", axis |-> "x"]
    /\ ret' = "print_home_y"
    /\ pc' = "go_home"
    /\ UNCHANGED <<axisVars, jobVars, current_position, motor, cmds, err,
                   range_call, warnings>>

\* y_axis.go_home() is called, and printing() returns.
print_home_y ==
    /\ pc = "print_home_y"
    /\ op' = [name |-> "go_home", axis |-> "y"]
    /\ ret' = "done"
    /\ pc' = "go_home"
    /\ UNCHANGED <<axisVars, jobVars, current_position, motor, cmds, err,
                   range_call, warnings>>

\* str(error): the text the message of the exception starts with
\* (lines 226-227, 1035-1036, 1039-1040, 1086-1087).
error_text(e) ==
    CASE e = "FormatError" -> "Expected picture dimensions after comments"
      [] e = "DimensionError" -> "Picture dimensions cannot be negative or 0"
      [] e = "WidthExceeded" -> "Picture is too width"
      [] e = "LimitViolation" -> "Target position"
      [] OTHER -> e

\* The exceptions the main program catches: RuntimeError and ValueError.
Caught == {"FormatError", "DimensionError", "WidthExceeded",
           "LimitViolation", "ValueError"}

\* A variant of error_name that knows no width error.
error_name_without_width(text) ==
    IF text = "Picture dimensions cannot be negative or 0"
       \/ text = "Expected picture dimensions after comments"
    THEN "INVALID FILE"
    ELSE "ANOTHER ERROR"

\* main: the error name the except clause gives to error_warning.
error_name(text) ==
    IF text = "Picture is too width"
    THEN "WIDTH ERROR"
    ELSE IF text = "Picture dimensions cannot be negative or 0"
            \/ text = "Expected picture dimensions after comments"
    THEN "INVALID FILE"
    ELSE "ANOTHER ERROR"

\* A variant of main_except that homes the axes before it warns.
main_except_homing ==
    /\ pc = "failed"
    /\ err \in Caught
    /\ warnings' = warnings \cup {<<error_name(error_text(err)),
                                    error_text(err)>>}
    /\ motor' = MotorRun(MotorRun(motor, "x", 0), "y", 0)
    /\ cmds' = cmds \o <<Cmd("x", 0), Cmd("y", 0)>>
    /\ pc' = "warned"
    /\ UNCHANGED <<axisVars, callVars, jobVars, err, range_call>>

\* main: the except clause of the call of printing().  error_warning lights
\* the hub, shows the error name and the text of the error, and beeps.
main_except ==
    /\ pc = "failed"
    /\ err \in Caught
    /\ warnings' = warnings \cup {<<error_name(error_text(err)),
                                    error_text(err)>>}
    /\ pc' = "warned"
    /\ UNCHANGED <<axisVars, callVars, jobVars, motor, cmds, err, range_call>>

(***************************************************************************)
(* SpecPrint: the main program calls printing() after calibration().       *)
(***************************************************************************)
\* The end positions the end calibration of the X axis may have found.
CalibratedEnds == {EndBound \div 2, EndBound, (3 * EndBound) \div 2}

Rows(w) == [1..w -> {"0", "1"}]
Grids(w) == UNION {[1..h -> Rows(w)] : h \in 1..MaxHeight}

RECURSIVE Spaced(_)
\* The cells of the rows on one raw line, a space after each.
Spaced(rows) ==
    IF rows = << >> THEN << >>
    ELSE LET row == Head(rows)
         IN  [i \in 1..(2 * Len(row)) |->
                 IF i % 2 = 1 THEN row[(i + 1) \div 2] ELSE " "]
             \o Spaced(Tail(rows))

MagicLine == <<"P", "1">>
CommentLine == <<"#", " ", "c">>
HeaderLine(w, h) == <<DigitChars[w + 1], " ", DigitChars[h + 1]>>

\* The files: a commented file with one raw line per row, and a file with
\* all its cells on one raw line.
PictureFilesOf(w) ==
    UNION {{<<MagicLine, CommentLine, HeaderLine(w, Len(g))>> \o g,
            <<MagicLine, HeaderLine(w, Len(g)), Spaced(g)>>} :
           g \in Grids(w)}
PictureFiles == UNION {PictureFilesOf(w) : w \in 1..MaxWidth}

\* The headers of the files: comment lines and a line of tokens, numbers or
\* not.
MaxComments == 2
MaxEntries == 3
HeaderNumbers == {-1, 0, 3, 4, 12}
JunkTokens == {<<"x">>, <<"1", ".", "5">>, <<"-">>}
Separators == {<<" ">>, <<" ", " ">>, <<"\t">>}
HeaderComments == {CommentLine, <<"#">>, <<"#", "4", " ", "3">>}

\* What stands on the line: a number, or None for a token that is no number.
HeaderEntries == {Some(n) : n \in HeaderNumbers} \cup {None}

\* The tokens of the line, as a program writes them, with sep between them.
RECURSIVE JoinEntries(_, _, _)
JoinEntries(entries, sep, junk) ==
    IF entries = << >> THEN << >>
    ELSE (IF Head(entries) = None THEN junk ELSE str(Val(Head(entries))))
         \o (IF Len(entries) > 1
             THEN sep \o JoinEntries(Tail(entries), sep, junk)
             ELSE << >>)

\* The line, with whitespace around it if padded.
HeaderLineOf(entries, sep, junk, padded) ==
    IF padded
    THEN <<" ">> \o JoinEntries(entries, sep, junk) \o <<" ">>
    ELSE JoinEntries(entries, sep, junk)

\* The file: the magic line, the comments, the line; a line with nothing on
\* it and no padding is the end of the file.
HeaderFile(comments, text) ==
    <<MagicLine>> \o comments \o (IF text = << >> THEN << >> ELSE <<text>>)

\* Files to try the header with: none or one comment, up to MaxEntries
\* tokens (0, 1, 5 or no number), and no row after them.
TrialEntries == {Some(0), Some(1), Some(5), None}
HeaderTrials ==
    UNION {[1..k -> {CommentLine}] \X [1..n -> TrialEntries] :
           k \in 0..1, n \in 0..MaxEntries}
TrialFile(trial) ==
    HeaderFile(trial[1], HeaderLineOf(trial[2], <<" ">>, <<"x">>, FALSE))
HeaderTrialFiles == {TrialFile(trial) : trial \in HeaderTrials}

\* x_axis and y_axis as the main program makes them (lines 1129-1133).
MainAxes(file) ==
    [a \in Axes |->
       IF a = "x"
       THEN AxisInit(X_GEAR_RATIO, X_WHEEL_DIAMETER, DOT_DIMENSION, X_SPEED,
                     1, TRUE, <<X_ZERO_COLOR, X_ZERO_COLOR_2>>, <<X_END_COLOR>>,
                     BACKLASH_CORRECTION, CORRECTION_VALUE, file)
       ELSE AxisInit(Y_GEAR_RATIO, Y_WHEEL_DIAMETER, DOT_DIMENSION, Y_SPEED,
                     1, FALSE, <<"0", "0">>, <<"0", "0">>, FALSE, 0, file)]

\* The state in which the main program calls printing(): the axes are made,
\* from no settings file or from the one an earlier run wrote, and
\* calibration() has left the end found in x_axis and in the file, the X
\* motor at rest at 0 and the pen up.  The Y motor, which calibration()
\* does not wait for, is at 0 and may be busy.
InitPrint ==
    /\ \E e \in CalibratedEnds, rerun \in BOOLEAN :
         LET written == Some([name |-> ModuleName, end |-> str(e)])
             made == MainAxes(IF rerun THEN written ELSE None)
         IN  /\ settings = written
             /\ axis = [made EXCEPT
                          !["x"].end = Some(e),
                          !["x"].length = Some(IntDiv(e, made["x"].step))]
    /\ \E busy \in BOOLEAN :
         motor = [m \in Motors |->
                    IF m = "y" THEN [pos |-> 0, target |-> 0, busy |-> busy]
                    ELSE MotorIdle(0)]
    /\ abs_offset = [m \in Motors |->
                       IF m = "pen" THEN PEN_DOESNT_DRAW ELSE 0]
    /\ sensor_color = None
    /\ drive = [m \in Motors |-> 0]
    /\ stored_by = "x"
    /\ pc = "printing"
    /\ ret = "done"
    /\ op = NoOp
    /\ current_position = 0
    /\ cmds = << >>
    /\ err = "none"
    /\ picture \in PictureFiles \cup HeaderTrialFiles
    /\ fpos = 0
    /\ picture_width = 0
    /\ rest_of_line = << >>
    /\ line = << >>
    /\ range_args = <<0, 0, 1>>
    /\ j = 0
    /\ lines_done = 0
    /\ dots = << >>
    /\ range_call = NoCall
    /\ warnings = {}

\* The files the program is run again with: a header of two tokens, each
\* 0, 1, 5 or no number, and no row.
RerunFiles ==
    {TrialFile(<<<< >>, entries>>) : entries \in [1..2 -> TrialEntries]}

\* After a warning of a job that commanded no motor, the program is run
\* again, with another file in the slot: the axes are made from the settings
\* file of the run before, and calibration() finds the end it found before.
NextRun ==
    /\ pc = "warned"
    /\ cmds = << >>
    /\ axis' = [MainAxes(settings) EXCEPT
                  !["x"].end = axis["x"].end,
                  !["x"].length = axis["x"].length]
    /\ picture' \in RerunFiles
    /\ fpos' = 0
    /\ picture_width' = 0
    /\ rest_of_line' = << >>
    /\ line' = << >>
    /\ range_args' = <<0, 0, 1>>
    /\ j' = 0
    /\ lines_done' = 0
    /\ ret' = "done"
    /\ op' = NoOp
    /\ err' = "none"
    /\ pc' = "printing"
    /\ UNCHANGED <<settings, abs_offset, sensor_color, drive, stored_by,
                   current_position, motor, cmds, dots, range_call, warnings>>

NextPrint ==
    \/ printing
    \/ print_line
    \/ print_wait_y
    \/ print_dots
    \/ print_put_dot
    \/ print_next
    \/ print_advance
    \/ print_home
    \/ print_home_y
    \/ run_to_position
    \/ rtp_overshoot_done
    \/ rtp_wait_done
    \/ move_steps
    \/ go_home
    \/ put_down
    \/ put_up
    \/ put_dot_done
    \/ main_except
    \/ NextRun
    \/ \E m \in Motors : MotorDone(m)

SpecPrint == InitPrint /\ [][NextPrint]_vars

\* The steps of the running program, from printing() to the warning.
PrintSteps ==
    \/ printing
    \/ print_line
    \/ print_wait_y
    \/ print_dots
    \/ print_put_dot
    \/ print_next
    \/ print_advance
    \/ print_home
    \/ print_home_y
    \/ run_to_position
    \/ rtp_overshoot_done
    \/ rtp_wait_done
    \/ move_steps
    \/ go_home
    \/ put_down
    \/ put_up
    \/ put_dot_done
    \/ main_except

\* The jobs whose end is followed: the pictures one and two cells wide, and
\* the files with a header and no row.
FairPictures == PictureFilesOf(1) \cup PictureFilesOf(2) \cup RerunFiles

InitPrintFair == InitPrint /\ picture \in FairPictures

\* The program goes on running, and a motor that was given a position
\* reaches it and reports that it is not busy.
SpecPrintFair ==
    /\ InitPrintFair
    /\ [][NextPrint]_vars
    /\ WF_vars(PrintSteps)
    /\ \A m \in Motors : WF_vars(MotorDone(m))

(***************************************************************************)
(* SpecRange: get_range_args is called on bounded inputs.                  *)
(***************************************************************************)
\* The line of the specification's example: width 10, marks at 2 and 5.
ExampleLine == <<"0", "0", "1", "0", "0", "1", "0", "0", "0", "0">>

RangeLines ==
    UNION {[1..n -> {"0", "1"}] : n \in 0..MaxLineLen} \cup {ExampleLine}

InitRange ==
    /\ settings = None
    /\ axis = MainAxes(None)
    /\ motor = [m \in Motors |-> MotorIdle(0)]
    /\ abs_offset = [m \in Motors |-> 0]
    /\ sensor_color = None
    /\ drive = [m \in Motors |-> 0]
    /\ stored_by = "none"
    /\ pc = "range"
    /\ ret = "range"
    /\ op = NoOp
    /\ current_position = 0
    /\ cmds = << >>
    /\ err = "none"
    /\ NoJob
    /\ range_call = NoCall
    /\ warnings = {}

CallGetRangeArgs ==
    /\ pc = "range"
    /\ \E cells \in RangeLines,
          axis_position \in (-1)..MaxAxisPosition,
          axis_step \in 1..MaxAxisStep,
          to_nearest \in BOOLEAN :
         range_call' =
            [line |-> cells,
             axis_position |-> axis_position,
             axis_step |-> axis_step,
             to_nearest |-> to_nearest,
             result |-> get_range_args(cells, axis_position, axis_step,
                                       to_nearest, "1"),
             visited |-> LET args == get_range_args(cells, axis_position,
                                                    axis_step, to_nearest, "1")
                         IN  range(args[1], args[2], args[3])]
    /\ pc' = "range_done"
    /\ UNCHANGED <<axisVars, callVars, jobVars, motor, cmds, err, warnings>>

NextRange == CallGetRangeArgs

SpecRange == InitRange /\ [][NextRange]_vars

(***************************************************************************)
(* SpecHeader: picture_dimensions is called on PBM files whose header is   *)
(* made of comment lines and a line of tokens, numbers or not.             *)
(***************************************************************************)
InitHeader ==
    /\ settings = None
    /\ axis = MainAxes(None)
    /\ motor = [m \in Motors |-> MotorIdle(0)]
    /\ abs_offset = [m \in Motors |-> 0]
    /\ sensor_color = None
    /\ drive = [m \in Motors |-> 0]
    /\ stored_by = "none"
    /\ pc = "header"
    /\ ret = "header"
    /\ op = NoOp
    /\ current_position = 0
    /\ cmds = << >>
    /\ err = "none"
    /\ NoJob
    /\ range_call = NoCall
    /\ warnings = {}

\* next(picture), then picture_dimensions(picture).
CallPictureDimensions ==
    /\ pc = "header"
    /\ \E k \in 0..MaxComments, n \in 0..MaxEntries :
         \E comments \in [1..k -> HeaderComments],
            entries \in [1..n -> HeaderEntries],
            sep \in Separators, junk \in JunkTokens, padded \in BOOLEAN :
           LET file == HeaderFile(comments,
                                  HeaderLineOf(entries, sep, junk, padded))
           IN  /\ picture' = file
               /\ range_call' = [result |-> Some(picture_dimensions(file, 1)),
                                 comments |-> comments,
                                 entries |-> entries,
                                 separator |-> sep,
                                 junk |-> junk,
                                 padded |-> padded]
    /\ pc' = "header_done"
    /\ UNCHANGED <<axisVars, callVars, motor, cmds, err, fpos, picture_width,
                   rest_of_line, line, range_args, j, lines_done, dots,
                   warnings>>

NextHeader == CallPictureDimensions

SpecHeader == InitHeader /\ [][NextHeader]_vars

(***************************************************************************)
(* SpecLines: get_line is called, each call on the remainder of the call   *)
(* before, over the raw lines of a picture that wrap anywhere.             *)
(***************************************************************************)
MaxCells == 6
MaxWrap == 3
Spacings == {"none", "after", "before"}
LineEnds == {<< >>, <<" ">>, <<"\t">>, <<" ", "\r">>}

\* The cells of one raw line as the file holds them.
RawLine(chunk, spacing, ending) ==
    (IF spacing = "none" THEN chunk
     ELSE [i \in 1..(2 * Len(chunk)) |->
             IF (i % 2 = 1) = (spacing = "after")
             THEN chunk[(i + 1) \div 2] ELSE " "])
    \o ending

\* The raw lines of the cells: wrap[1] cells on the first line, wrap[2] on
\* the second, and so on in turns.
RECURSIVE RawLines(_, _, _, _)
RawLines(cells, wrap, spacing, ending) ==
    IF cells = << >> THEN << >>
    ELSE LET k == Min(wrap[1], Len(cells))
         IN  <<RawLine(SubSeq(cells, 1, k), spacing, ending)>>
             \o RawLines(SubSeq(cells, k + 1, Len(cells)),
                         <<wrap[2], wrap[1]>>, spacing, ending)

InitLines ==
    /\ settings = None
    /\ axis = MainAxes(None)
    /\ motor = [m \in Motors |-> MotorIdle(0)]
    /\ abs_offset = [m \in Motors |-> 0]
    /\ sensor_color = None
    /\ drive = [m \in Motors |-> 0]
    /\ stored_by = "none"
    /\ pc = "lines"
    /\ ret = "lines"
    /\ op = NoOp
    /\ current_position = 0
    /\ cmds = << >>
    /\ err = "none"
    /\ NoJob
    /\ range_call = NoCall
    /\ warnings = {}

\* The picture is open, its header read: rest_of_line = [].
OpenPicture ==
    /\ pc = "lines"
    /\ \E n \in 0..MaxCells, width \in 1..MaxWidth,
          wrap \in (1..MaxWrap) \X (1..MaxWrap),
          spacing \in Spacings, ending \in LineEnds :
         \E cells \in [1..n -> {"0", "1"}] :
           /\ picture' = RawLines(cells, wrap, spacing, ending)
           /\ picture_width' = width
           /\ range_call' = [result |-> None, cells |-> cells,
                             rows |-> << >>, wrap |-> wrap]
    /\ rest_of_line' = << >>
    /\ fpos' = 0
    /\ pc' = "get_line"
    /\ UNCHANGED <<axisVars, callVars, motor, cmds, err, line, range_args, j,
                   lines_done, dots, warnings>>

\* line, rest_of_line, end_of_picture = get_line(picture, rest_of_line, width)
CallGetLine ==
    /\ pc = "get_line"
    /\ LET got == get_line(picture, fpos, rest_of_line, picture_width)
       IN  /\ fpos' = got.fpos
           /\ line' = got.line
           /\ rest_of_line' = got.remainder
           /\ range_call' = [range_call EXCEPT
                               !.result = Some(got),
                               !.rows = Append(@, got.line)]
           /\ pc' = IF got.reached_end THEN "lines_done" ELSE "get_line"
    /\ UNCHANGED <<axisVars, callVars, motor, cmds, err, picture,
                   picture_width, range_args, j, lines_done, dots, warnings>>

NextLines ==
    \/ OpenPicture
    \/ CallGetLine

SpecLines == InitLines /\ [][NextLines]_vars

(***************************************************************************)
(* SpecGaps: get_line is called over a picture with one raw line per row   *)
(* and, between two of its rows or nowhere, a raw line with no cell on it. *)
(***************************************************************************)
\* The raw lines with no cell: empty, or whitespace only.
BlankLines == {<< >>, <<" ">>, <<"\t">>, <<" ", " ">>}

\* The raw lines of the rows, with the line blank after the first k rows
\* (k = 0: no such line).
GappedLines(rows, k, blank) ==
    IF k = 0 THEN rows
    ELSE SubSeq(rows, 1, k) \o <<blank>> \o SubSeq(rows, k + 1, Len(rows))

\* The picture is open, its header read: rest_of_line = [].
OpenGappedPicture ==
    /\ pc = "lines"
    /\ \E width \in 1..MaxWidth, blank \in BlankLines :
         \E rows \in Grids(width) :
           \E k \in 0..(Len(rows) - 1) :
             /\ picture' = GappedLines(rows, k, blank)
             /\ picture_width' = width
             /\ range_call' = [result |-> None, cells |-> rows,
                               rows |-> << >>, wrap |-> <<k, k>>]
    /\ rest_of_line' = << >>
    /\ fpos' = 0
    /\ pc' = "get_line"
    /\ UNCHANGED <<axisVars, callVars, motor, cmds, err, line, range_args, j,
                   lines_done, dots, warnings>>

NextGaps ==
    \/ OpenGappedPicture
    \/ CallGetLine

SpecGaps == InitLines /\ [][NextGaps]_vars

(***************************************************************************)
(* SpecPen: run_to_absolute_position is called once on the pen motor, from *)
(* every absolute position to every position.                              *)
(***************************************************************************)
\* The positions asked for: the valid ones and the two next to them.
PenPositions == (-1)..360
\* The positions that are tried with every direction, one of them unknown.
CoarsePositions == {-1, 0, 90, 180, 270, 359, 360}

InitPen ==
    /\ settings = None
    /\ axis = MainAxes(None)
    /\ \E start \in {0, 400} :
         motor = [m \in Motors |-> MotorIdle(IF m = "pen" THEN start ELSE 0)]
    /\ \E absolute \in 0..359 :
         abs_offset = [m \in Motors |->
                         IF m = "pen" THEN (absolute - motor[m].pos) % 360
                         ELSE 0]
    /\ sensor_color = None
    /\ drive = [m \in Motors |-> 0]
    /\ stored_by = "none"
    /\ pc = "idle"
    /\ ret = "returned"
    /\ op = NoOp
    /\ current_position = 0
    /\ cmds = << >>
    /\ err = "none"
    /\ NoJob
    /\ range_call = NoCall
    /\ warnings = {}

CallRunToAbsolutePosition ==
    /\ pc = "idle"
    /\ \E position \in PenPositions :
         \E direction \in (IF position \in CoarsePositions
                           THEN valid_directions \cup {"sideways"}
                           ELSE {"shortest path"}) :
           op' = [name |-> "run_to_absolute_position", position |-> position,
                  motor |-> "pen", direction |-> direction]
    /\ pc' = "run_to_absolute_position"
    /\ UNCHANGED <<axisVars, jobVars, motor, ret, current_position, cmds, err,
                   range_call, warnings>>

NextPen ==
    \/ CallRunToAbsolutePosition
    \/ run_to_absolute_position
    \/ rtap_wait
    \/ MotorDone("pen")

SpecPen == InitPen /\ [][NextPen]_vars

(***************************************************************************)
(* SpecConfig: a client makes an Axis and calls run_to_position and        *)
(* run_to_absolute_position, with arguments the code accepts and with      *)
(* arguments it does not.                                                  *)
(***************************************************************************)
\* Axis.__init__ with the arguments of x_axis but the direction: the
\* direction is checked before the steps are computed and the file is read.
__init__ ==
    /\ pc = "__init__"
    /\ IF op.direction \in VALID_DIRECTIONS
       THEN /\ axis' = [axis EXCEPT
                          ![op.axis] =
                            AxisInit(X_GEAR_RATIO, X_WHEEL_DIAMETER,
                                     DOT_DIMENSION, X_SPEED, op.direction,
                                     TRUE, <<X_ZERO_COLOR, X_ZERO_COLOR_2>>,
                                     <<X_END_COLOR>>, BACKLASH_CORRECTION,
                                     CORRECTION_VALUE, settings)]
            /\ pc' = ret
            /\ err' = err
       ELSE /\ Raise("ValueError")
            /\ UNCHANGED axis
    /\ UNCHANGED <<settings, abs_offset, sensor_color, drive, stored_by,
                   jobVars, callVars, motor, cmds, range_call, warnings>>

InitConfig ==
    /\ settings \in SettingsFiles
    /\ axis = MainAxes(settings)
    /\ motor = [m \in Motors |-> MotorIdle(0)]
    /\ abs_offset = [m \in Motors |->
                       IF m = "pen" THEN PEN_DOESNT_DRAW ELSE 0]
    /\ sensor_color = None
    /\ drive = [m \in Motors |-> 0]
    /\ stored_by = IF settings = None THEN "none" ELSE "x"
    /\ pc = "idle"
    /\ ret = "returned"
    /\ op = NoOp
    /\ current_position = 0
    /\ cmds = << >>
    /\ err = "none"
    /\ NoJob
    /\ range_call = NoCall
    /\ warnings = {}

\* The client makes the Axis with a direction from -1 to 2.
CallInit ==
    \E direction \in (-1)..2 :
        Call([name |-> "__init__", axis |-> TestAxis, direction |-> direction])

\* The client passes a mode, known or not, and a position from 0 to 2.
CallRunToPositionMode ==
    \E mode \in valid_modes \cup {"dots", "Steps"}, position \in 0..2 :
        Call([name |-> "run_to_position", axis |-> TestAxis,
              position |-> position, wait |-> TRUE, mode |-> mode])

\* The client passes a position from -1 to 360 and a direction, known or
\* not, while the pen motor is within a turn of 0.
CallRunToAbsolutePositionArgs ==
    /\ Abs(motor["pen"].pos) <= 360
    /\ \E position \in CoarsePositions :
       \E direction \in valid_directions \cup {"sideways"} :
         Call([name |-> "run_to_absolute_position", axis |-> TestAxis,
               position |-> position, motor |-> "pen",
               direction |-> direction])

NextConfig ==
    \/ CallInit
    \/ CallRunToPositionMode
    \/ CallRunToAbsolutePositionArgs
    \/ Return
    \/ __init__
    \/ run_to_position
    \/ rtp_overshoot_done
    \/ rtp_wait_done
    \/ run_to_absolute_position
    \/ rtap_wait
    \/ \E m \in {TestAxis, "pen"} : MotorDone(m)

SpecConfig == InitConfig /\ [][NextConfig]_vars

(***************************************************************************)
(* SpecStep: the pure function _calculate_step over bounded inputs.  A     *)
(* client calls it twice on one geometry, with distances in units of       *)
(* 1 / DistanceScale mm; the distance n / DistanceScale on a wheel of      *)
(* diameter w is the distance n on a wheel of diameter DistanceScale * w.  *)
(***************************************************************************)
InitStep ==
    /\ settings = None
    /\ axis = MainAxes(None)
    /\ motor = [m \in Motors |-> MotorIdle(0)]
    /\ abs_offset = [m \in Motors |-> 0]
    /\ sensor_color = None
    /\ drive = [m \in Motors |-> 0]
    /\ stored_by = "none"
    /\ pc = "idle"
    /\ ret = "returned"
    /\ op = NoOp
    /\ current_position = 0
    /\ cmds = << >>
    /\ err = "none"
    /\ NoJob
    /\ \E gearing \in AxisGearings \cup {<<Y_GEAR_RATIO, Y_WHEEL_DIAMETER>>} :
         range_call = [gear_ratio |-> gearing[1],
                       wheel_diameter |-> gearing[2], result |-> << >>]
    /\ warnings = {}

\* The call and its result: <<distance in units, step>> is kept.
CallCalculateStep ==
    /\ pc = "idle"
    /\ Len(range_call.result) < 2
    /\ \E distance \in (-DistanceScale)..MaxDistance :
         range_call' =
           [range_call EXCEPT
              !.result =
                Append(@, <<distance,
                            _calculate_step(distance, range_call.gear_ratio,
                                            DistanceScale
                                            * range_call.wheel_diameter)>>)]
    /\ UNCHANGED <<axisVars, callVars, jobVars, motor, pc, cmds, err, warnings>>

NextStep == CallCalculateStep

SpecStep == InitStep /\ [][NextStep]_vars

(***************************************************************************)
(* SpecCal: a client calibrates the axes of the main program and sets      *)
(* their steps, over several runs of the program; the carriage turns while *)
(* its motor is driven and the sensor reports what passes under it.        *)
(* SpecCalFair adds that the running program keeps taking its steps.       *)
(***************************************************************************)
\* What a driven motor turns between two readings of the sensor.
TurnStep == EndBound \div 2

SensorReadings ==
    {None} \cup {color_value(c) : c \in {X_ZERO_COLOR, X_ZERO_COLOR_2, X_END_COLOR}}

DotDimensions == {DOT_DIMENSION, 2 * DOT_DIMENSION}

\* Where the encoder of an axis motor stands when the program starts.
StartPositions == {0, TurnStep}

\* A motor driven by run_at_speed turns on; it has no target but where it is.
MotorTurns(m) ==
    /\ drive[m] # 0
    /\ LET p == motor[m].pos + (IF drive[m] > 0 THEN TurnStep ELSE -TurnStep)
       IN  /\ Abs(p) <= PosBound
           /\ motor' = [motor EXCEPT ![m] = MotorIdle(p)]
    /\ UNCHANGED <<axisVars, callVars, jobVars, pc, cmds, err,
                   range_call, warnings>>

\* Another colour comes under the sensor of the X axis as its carriage moves.
SensorSees ==
    /\ drive["x"] # 0
    /\ \E reading \in SensorReadings \ {sensor_color} : sensor_color' = reading
    /\ UNCHANGED <<settings, axis, abs_offset, drive, stored_by, callVars, jobVars,
                   motor, pc, cmds, err, range_call, warnings>>

\* The axes of the main program, the X axis with its sensor attached or not.
CalAxes(file, x_sensor) == [MainAxes(file) EXCEPT !["x"].sensor = x_sensor]

InitCal ==
    /\ settings = None
    /\ \E x_sensor \in BOOLEAN : axis = CalAxes(None, x_sensor)
    /\ \E start \in StartPositions :
          motor = [m \in Motors |-> MotorIdle(IF m \in Axes THEN start ELSE 0)]
    /\ abs_offset = [m \in Motors |-> 0]
    /\ sensor_color \in SensorReadings
    /\ drive = [m \in Motors |-> 0]
    /\ stored_by = "none"
    /\ pc = "idle"
    /\ ret = "returned"
    /\ op = NoOp
    /\ current_position = 0
    /\ cmds = << >>
    /\ err = "none"
    /\ NoJob
    /\ range_call = NoCall
    /\ warnings = {}

CallCalibrateZero ==
    \E a \in Axes : Call([name |-> "calibrate_zero", axis |-> a, value |-> None])

CallCalibrateEnd ==
    \E a \in Axes : Call([name |-> "calibrate_end", axis |-> a, value |-> None])

CallSetSteps ==
    \E a \in Axes, dot_dim \in DotDimensions :
        Call([name |-> "set_steps", axis |-> a,
              gear_ratio |-> axis[a].gear_ratio,
              dot_dim |-> dot_dim,
              correction |-> axis[a].correction_value,
              wheel_dim |-> axis[a].wheel_diameter])

\* A later run of the program: the axes are made anew from settings.txt.
Rerun ==
    /\ pc = "idle"
    /\ op = NoOp
    /\ axis' = CalAxes(settings, axis["x"].sensor)
    /\ op' = [name |-> "construct"]
    /\ UNCHANGED <<settings, abs_offset, sensor_color, drive, stored_by, jobVars,
                   motor, pc, ret, current_position, cmds, err,
                   range_call, warnings>>

\* The steps of the running program.
CalSteps ==
    \/ calibrate_zero
    \/ calibrate
    \/ ruc_check
    \/ ruc_poll
    \/ cal_preset
    \/ calibrate_end
    \/ calibrate_end_store
    \/ set_steps

NextCal ==
    \/ CallCalibrateZero
    \/ CallCalibrateEnd
    \/ CallSetSteps
    \/ Return
    \/ Rerun
    \/ CalSteps
    \/ MotorTurns("x")
    \/ SensorSees

SpecCal == InitCal /\ [][NextCal]_vars

SpecCalFair == SpecCal /\ WF_vars(CalSteps)

(***************************************************************************)
(* SpecMain: the main program from calibration() to the end of printing(), *)
(* with the pen wherever the run before left it.                           *)
(***************************************************************************)
\* A variant of calibration that leaves the pen where it is.
calibration_without_put_up ==
    /\ pc = "calibration"
    /\ pc' = "cal_y_zero"
    /\ UNCHANGED <<axisVars, jobVars, callVars, motor, cmds, err,
                   range_call, warnings>>

\* calibration(): pen.put_up() is called.
calibration ==
    /\ pc = "calibration"
    /\ op' = [name |-> "run_to_absolute_position",
              position |-> PEN_DOESNT_DRAW, motor |-> "pen",
              direction |-> "shortest path"]
    /\ ret' = "cal_y_zero"
    /\ pc' = "run_to_absolute_position"
    /\ UNCHANGED <<axisVars, jobVars, current_position, motor, cmds, err,
                   range_call, warnings>>

\* calibration(): y_axis.calibrate_zero() is called.
cal_y_zero ==
    /\ pc = "cal_y_zero"
    /\ op' = [name |-> "calibrate_zero", axis |-> "y", value |-> None]
    /\ ret' = "cal_x_zero"
    /\ pc' = "calibrate_zero"
    /\ UNCHANGED <<axisVars, jobVars, current_position, motor, cmds, err,
                   range_call, warnings>>

\* calibration(): x_axis.calibrate_zero() is called.
cal_x_zero ==
    /\ pc = "cal_x_zero"
    /\ op' = [name |-> "calibrate_zero", axis |-> "x", value |-> None]
    /\ ret' = "cal_x_end"
    /\ pc' = "calibrate_zero"
    /\ UNCHANGED <<axisVars, jobVars, current_position, motor, cmds, err,
                   range_call, warnings>>

\* calibration(): x_axis.calibrate_end() is called.
cal_x_end ==
    /\ pc = "cal_x_end"
    /\ op' = [name |-> "calibrate_end", axis |-> "x", value |-> None]
    /\ ret' = "cal_go_home"
    /\ pc' = "calibrate_end"
    /\ UNCHANGED <<axisVars, jobVars, current_position, motor, cmds, err,
                   range_call, warnings>>

\* calibration(): x_axis.go_home() is called.
cal_go_home ==
    /\ pc = "cal_go_home"
    /\ op' = [name |-> "go_home", axis |-> "x"]
    /\ ret' = "cal_wait_x"
    /\ pc' = "go_home"
    /\ UNCHANGED <<axisVars, jobVars, current_position, motor, cmds, err,
                   range_call, warnings>>

\* The pictures in the slot: two cells wide.
MainPictures == PictureFilesOf(2)

\* calibration(): x_axis.wait_until_motion_done(); then the main program
\* calls printing() on the file of the slot.
cal_wait_x ==
    /\ pc = "cal_wait_x"
    /\ wait_until_motion_done("x")
    /\ picture' \in MainPictures
    /\ ret' = "done"
    /\ pc' = "printing"
    /\ UNCHANGED <<axisVars, op, current_position, motor, cmds, err, fpos,
                   picture_width, rest_of_line, line, range_args, j,
                   lines_done, dots, range_call, warnings>>

\* The program starts: the axes are made, from no settings file or from the
\* one of an earlier run; the pen is at any of four positions, the drawing
\* position among them.
InitMain ==
    /\ settings \in {None, settings_written(EndBound)}
    /\ axis = MainAxes(settings)
    /\ \E start \in StartPositions :
          motor = [m \in Motors |-> MotorIdle(IF m = "x" THEN start ELSE 0)]
    /\ \E absolute \in {PEN_DRAWS, PEN_DOESNT_DRAW, 0, 270} :
          abs_offset = [m \in Motors |-> IF m = "pen" THEN absolute ELSE 0]
    /\ sensor_color \in SensorReadings
    /\ drive = [m \in Motors |-> 0]
    /\ stored_by = IF settings = None THEN "none" ELSE "x"
    /\ pc = "calibration"
    /\ ret = "done"
    /\ op = NoOp
    /\ current_position = 0
    /\ cmds = << >>
    /\ err = "none"
    /\ NoJob
    /\ range_call = NoCall
    /\ warnings = {}

\* The steps of the program.
MainSteps ==
    \/ calibration
    \/ cal_y_zero
    \/ cal_x_zero
    \/ cal_x_end
    \/ cal_go_home
    \/ cal_wait_x
    \/ run_to_absolute_position
    \/ rtap_wait
    \/ calibrate_zero
    \/ calibrate
    \/ ruc_check
    \/ ruc_poll
    \/ cal_preset
    \/ calibrate_end
    \/ calibrate_end_store
    \/ go_home
    \/ printing
    \/ print_line
    \/ print_wait_y
    \/ print_dots
    \/ print_put_dot
    \/ print_next
    \/ print_advance
    \/ print_home
    \/ print_home_y
    \/ run_to_position
    \/ rtp_overshoot_done
    \/ rtp_wait_done
    \/ move_steps
    \/ put_down
    \/ put_up
    \/ put_dot_done
    \/ main_except

NextMain ==
    \/ MainSteps
    \/ \E m \in Motors : MotorDone(m)
    \/ MotorTurns("x")
    \/ SensorSees

SpecMain == InitMain /\ [][NextMain]_vars

(***************************************************************************)
(* Claims about the Axis methods, under SpecAxis.                          *)
(***************************************************************************)
EndKnown(a) == axis[a].end # None
InLimits(a, t) ==
    Min(Val(axis[a].end), 0) <= t /\ t <= Max(Val(axis[a].end), 0)
OpTarget == rtp_target(op.axis, op.position, op.mode)

\* C1: run_to_position (degrees or steps mode) on an Axis whose end is known,
\* with a target outside [min(0,end), max(0,end)], ends with the limit
\* violation error, issues no motor command and leaves the motor as it was.
C1_LimitViolationBeforeAnyCommand ==
    [][(/\ pc = "run_to_position"
        /\ pc' # pc
        /\ op.mode \in valid_modes
        /\ EndKnown(op.axis)
        /\ ~InLimits(op.axis, OpTarget))
       => (/\ err' = "LimitViolation"
           /\ pc' = "returned"
           /\ cmds' = cmds
           /\ motor' = motor)]_vars

C1_Witness ==
    /\ pc = "returned"
    /\ op.name = "run_to_position"
    /\ op.mode = "steps"
    /\ EndKnown(op.axis)
    /\ OpTarget < Min(Val(axis[op.axis].end), 0)
    /\ err = "LimitViolation"
    /\ cmds = << >>

\* C2: move_steps(count, wait) commands the motor to current position +
\* count * step * direction for every in-range target, for wait true and
\* for wait false alike.
C2_MoveStepsCommandsRelativeMove ==
    (/\ pc = "returned"
     /\ op.name = "move_steps"
     /\ err = "none")
    => cmds = <<Cmd(op.axis, current_position
                      + op.steps * axis[op.axis].step * axis[op.axis].direction)>>

\* C4: run_to_position with backlash correction issues two commands when the
\* target is below the current position, to target - correction_step and
\* then to target, the second only once the motor is no longer busy with the
\* first; otherwise (target >= current position, or no backlash correction)
\* it issues the one command to target.
C4_BacklashCommands ==
    /\ []((/\ pc = "returned"
           /\ op.name = "run_to_position"
           /\ err = "none")
          => cmds = IF OpTarget < current_position
                       /\ axis[op.axis].backlash_correction
                    THEN <<Cmd(op.axis, OpTarget
                                        - axis[op.axis].correction_step),
                           Cmd(op.axis, OpTarget)>>
                    ELSE <<Cmd(op.axis, OpTarget)>>)
    /\ [][(op.name = "run_to_position" /\ Len(cmds) = 1 /\ Len(cmds') = 2)
           => (/\ ~motor[op.axis].busy
               /\ motor[op.axis].pos = cmds[1].arg)]_vars

C4_Witness ==
    /\ pc = "returned"
    /\ op.name = "run_to_position"
    /\ axis[op.axis].backlash_correction
    /\ OpTarget < current_position
    /\ Len(cmds) = 2
    /\ err = "none"

\* C12: run_to_position in steps mode takes step * position as its target,
\* in degrees mode the position itself; the limit check is made on that
\* target and the motor is commanded to it (step 18, position 3: 54).
C12_StepsModeTarget ==
    /\ [][(/\ pc = "run_to_position"
            /\ pc' # pc
            /\ op.mode \in valid_modes)
           => LET a == op.axis
                  target == IF op.mode = "steps"
                            THEN axis[a].step * op.position
                            ELSE op.position
                  passes == EndKnown(a) => InLimits(a, target)
              IN  /\ ~passes => (err' = "LimitViolation" /\ cmds' = cmds)
                  /\ passes
                     => /\ err' = err
                        /\ Len(cmds') = Len(cmds) + 1
                        /\ cmds'[Len(cmds')].arg
                              \in {target, target - axis[a].correction_step}]_vars
    /\ []((/\ pc = "returned"
            /\ op.name = "run_to_position"
            /\ err = "none")
           => cmds[Len(cmds)].arg = IF op.mode = "steps"
                                    THEN axis[op.axis].step * op.position
                                    ELSE op.position)

C12_Witness ==
    /\ pc = "returned"
    /\ op.name = "run_to_position"
    /\ op.mode = "steps"
    /\ axis[op.axis].step = 18
    /\ op.position = 3
    /\ EndKnown(op.axis)
    /\ err = "none"
    /\ cmds[Len(cmds)].arg = 54

\* The limit check is made on the converted target: a position that is
\* within the limits as a number of degrees, and beyond them in steps.
C12_WitnessLimit ==
    /\ pc = "returned"
    /\ op.name = "run_to_position"
    /\ op.mode = "steps"
    /\ EndKnown(op.axis)
    /\ InLimits(op.axis, op.position)
    /\ err = "LimitViolation"

\* C19: once the end of an Axis is known, every position commanded to its
\* motor by run_to_position, move_steps or go_home, the position of the
\* backlash overshoot included, lies within [min(0, end), max(0, end)].
C19_CommandsWithinLimits ==
    EndKnown(TestAxis)
    => \A i \in 1..Len(cmds) :
         (cmds[i].motor = TestAxis /\ cmds[i].cmd = "run_to_position")
         => InLimits(TestAxis, cmds[i].arg)

(***************************************************************************)
(* Claims about the print job, under SpecPrint.                            *)
(***************************************************************************)
IsY(c) == c.motor = "y"
IsX(c) == c.motor = "x"
IsPen(c) == c.motor = "pen"
InCurrentLine(d) == d[1] = lines_done

\* The columns (from 0) of the marked cells of a scanline.
Marked(cells) == {i \in 0..(Len(cells) - 1) : cells[i + 1] = "1"}

\* C3: after every processed scanline the Y motor is commanded to advance by
\* one dot-step: once k scanlines are processed, k Y commands have been
\* issued and the Y target is k * step * direction.
C3_YAdvancePerScanline ==
    (pc = "print_line" /\ err = "none")
    => /\ Len(SelectSeq(cmds, IsY)) = lines_done
       /\ motor["y"].target
             = lines_done * axis["y"].step * axis["y"].direction

\* C5: a picture wider than x_axis.length fails with the width error before
\* the job issues any motor command, and a picture of width <= x_axis.length
\* passes the validation.
C5_WidthValidation ==
    /\ [](err = "WidthExceeded"
          => (pc \in {"failed", "warned"} /\ cmds = << >>))
    /\ [][(/\ pc = "printing"
            /\ pc' # pc
            /\ picture_dimensions(picture, 1).error = "none")
           => IF picture_dimensions(picture, 1).width > Val(axis["x"].length)
              THEN /\ err' = "WidthExceeded"
                   /\ pc' = "failed"
                   /\ cmds' = << >>
                   /\ motor' = motor
              ELSE /\ err' = "none"
                   /\ pc' = "print_line"]_vars

C5_Witness ==
    /\ pc = "failed"
    /\ err = "WidthExceeded"
    /\ picture_dimensions(picture, 1).width = Val(axis["x"].length) + 1
    /\ cmds = << >>

\* C6: in a processed scanline every cell '1' gets exactly one dot and a cell
\* '0' gets none: the pen is put down only with the X motor at rest at the
\* column of a marked cell, the pen goes up only after it went down, and at
\* the end of the line the dots of the line are the marked columns, each once.
C6_OneDotPerMarkedCell ==
    /\ [](pc = "print_advance"
          => LET lineDots == SelectSeq(dots, InCurrentLine)
             IN  /\ Len(lineDots) = Cardinality(Marked(line))
                 /\ {lineDots[k][2] : k \in 1..Len(lineDots)}
                      = {axis["x"].step * i : i \in Marked(line)}
                 /\ Len(SelectSeq(cmds, IsPen)) = 2 * Len(dots))
    /\ [][(pc = "put_down" /\ pc' # pc)
           => (/\ ~motor["x"].busy
               /\ motor["x"].pos = axis["x"].step * j
               /\ op = [name |-> "run_to_position", axis |-> "x",
                         position |-> j, wait |-> TRUE, mode |-> "steps"]
               /\ line[j + 1] = "1")]_vars
    /\ [][(pc = "put_down_wait" /\ pc' # pc)
           => (~motor["pen"].busy /\ AbsolutePosition("pen") = PEN_DRAWS)]_vars

C6_Witness ==
    /\ pc = "print_advance"
    /\ line = <<"1", "0", "1">>
    /\ range_args = <<2, -1, -1>>
    /\ Len(SelectSeq(dots, InCurrentLine)) = 2

\* C7: in the print loop no X motor command is issued while the Y motor is
\* busy: the for loop of a scanline starts only once the Y motor reports
\* not busy.
C7_NoXCommandWhileYBusy ==
    /\ [][(Len(SelectSeq(cmds', IsX)) > Len(SelectSeq(cmds, IsX))
            /\ op.name = "run_to_position")
           => ~motor["y"].busy]_vars
    /\ [][(pc = "print_wait_y" /\ pc' # pc) => ~motor["y"].busy]_vars

C7_Witness ==
    /\ pc = "print_wait_y"
    /\ motor["y"].busy
    /\ Marked(line) # {}

(***************************************************************************)
(* Claims about get_range_args, under SpecRange.                           *)
(***************************************************************************)
Called == range_call # NoCall
FirstMark(cells) == CHOOSE i \in Marked(cells) : \A k \in Marked(cells) : i <= k
LastMark(cells) == CHOOSE i \in Marked(cells) : \A k \in Marked(cells) : i >= k

\* C8: with to_nearest true, on a line with a mark, get_range_args returns
\* (last, first - 1, -1) exactly when the axis position is strictly nearer to
\* last * axis_step than to first * axis_step, and (first, last + 1, 1)
\* otherwise, ties included; marks at {2, 5} with step 1 give (2, 6, 1) at
\* position 0 and (5, 1, -1) at position 9.
C8_NearestEnd ==
    (Called /\ range_call.to_nearest /\ Marked(range_call.line) # {})
    => LET first == FirstMark(range_call.line)
           last == LastMark(range_call.line)
           toFirst == Abs(range_call.axis_position - first * range_call.axis_step)
           toLast == Abs(range_call.axis_position - last * range_call.axis_step)
       IN  /\ range_call.result
                = IF toLast < toFirst
                  THEN <<last, first - 1, -1>>
                  ELSE <<first, last + 1, 1>>
           /\ (range_call.line = ExampleLine /\ range_call.axis_step = 1)
              => /\ range_call.axis_position = 0
                    => range_call.result = <<2, 6, 1>>
                 /\ range_call.axis_position = 9
                    => range_call.result = <<5, 1, -1>>

C8_Witness ==
    /\ Called
    /\ range_call.to_nearest
    /\ range_call.line = ExampleLine
    /\ range_call.axis_step = 1
    /\ range_call.axis_position = 9
    /\ range_call.result = <<5, 1, -1>>

\* C9: on a line of any width with no mark, get_range_args returns (0, 0, 1)
\* whatever the axis position, the axis step and to_nearest.
C9_NoMarkEmptyRange ==
    (Called /\ Marked(range_call.line) = {})
    => range_call.result = <<0, 0, 1>>

C9_Witness ==
    /\ Called
    /\ Len(range_call.line) = MaxLineLen
    /\ Marked(range_call.line) = {}
    /\ range_call.to_nearest
    /\ range_call.axis_position = MaxAxisPosition
    /\ range_call.result = <<0, 0, 1>>

\* C10: with to_nearest false, on a line with a mark, get_range_args returns
\* the ascending (first, last + 1, 1) whatever the axis position and step.
C10_AscendingWhenNotNearest ==
    (Called /\ ~range_call.to_nearest /\ Marked(range_call.line) # {})
    => range_call.result = <<FirstMark(range_call.line),
                             LastMark(range_call.line) + 1, 1>>

C10_Witness ==
    /\ Called
    /\ ~range_call.to_nearest
    /\ range_call.line = ExampleLine
    /\ range_call.axis_position = 9
    /\ range_call.result = <<2, 6, 1>>

\* C11: on a line with a mark, range(start, stop, step) over the triple of
\* get_range_args yields every index from the first mark to the last mark
\* once and no other index, walking up or walking down, also when the walk
\* down ends at index 0 (stop -1).
C11_RangeCoversMarkedSpan ==
    (Called /\ Marked(range_call.line) # {})
    => LET first == FirstMark(range_call.line)
           last == LastMark(range_call.line)
           seen == range_call.visited
       IN  /\ Len(seen) = last - first + 1
           /\ \A i \in 1..Len(seen) :
                 seen[i] = IF range_call.result[3] > 0
                           THEN first + (i - 1)
                           ELSE last - (i - 1)
           /\ \A k \in first..last :
                 Cardinality({i \in 1..Len(seen) : seen[i] = k}) = 1

C11_Witness ==
    /\ Called
    /\ Marked(range_call.line) # {}
    /\ FirstMark(range_call.line) = 0
    /\ LastMark(range_call.line) > 0
    /\ range_call.result[2] = -1
    /\ range_call.result[3] = -1
    /\ Len(range_call.visited) = LastMark(range_call.line) + 1
    /\ range_call.visited[Len(range_call.visited)] = 0

(***************************************************************************)
(* Claims about calibration and the settings file, under SpecCal.          *)
(***************************************************************************)
\* C13: calibrate_end on an Axis whose end is known issues no motor command,
\* does not write settings.txt, leaves end as it is and returns it.
C13_CalibrateEndCached ==
    [][(/\ pc = "calibrate_end"
        /\ pc' # pc
        /\ EndKnown(op.axis))
       => (/\ pc' = "returned"
           /\ cmds' = cmds
           /\ motor' = motor
           /\ drive' = drive
           /\ settings' = settings
           /\ axis'[op.axis].end = axis[op.axis].end
           /\ op'.value = axis[op.axis].end)]_vars

C13_Witness ==
    /\ pc = "returned"
    /\ op.name = "calibrate_end"
    /\ op.axis = "x"
    /\ op.value # None
    /\ op.value = axis["x"].end
    /\ settings # None
    /\ cmds = << >>

\* C14: calibrate_end on an Axis whose end is unknown takes the position of
\* the motor after calibrate as end, writes that value to settings.txt and
\* sets length from it; the Axis made from that file in a later run has the
\* end that was written.
C14_PersistRecover ==
    /\ [][(pc = "calibrate_end_store" /\ pc' # pc)
          => LET a == op.axis
                 p == motor[a].pos
             IN  /\ axis'[a].end = Some(p)
                 /\ settings' # None
                 /\ Val(settings').name = ModuleName
                 /\ ToInt(Val(settings').end) = p
                 /\ axis'[a].length = Some(IntDiv(p, axis[a].step))]_vars
    /\ [][(op'.name = "construct" /\ op.name # "construct"
           /\ stored_by # "none")
          => /\ axis[stored_by].end # None
             /\ axis'[stored_by].end = axis[stored_by].end]_vars

C14_Witness ==
    /\ op.name = "construct"
    /\ stored_by = "x"
    /\ settings # None
    /\ axis["x"].end = Some(2 * TurnStep)
    /\ motor["x"].pos = 0

\* C15: the end kept in settings.txt belongs to the axis that calibrated it:
\* an Axis made in a later run has a known end only if its own calibrate_end
\* wrote the file, so the Y axis never starts with the end of the X axis.
C15_EndLoadedByItsAxisOnly ==
    op.name = "construct"
    => \A a \in Axes : EndKnown(a) => stored_by = a

\* A call of calibrate_zero on an axis that has no sensor.
ZeroCalledWithoutSensor ==
    /\ op.name = "calibrate"
    /\ op.caller = "calibrate_zero"
    /\ ~axis[op.axis].sensor

\* C16: calibrate_zero on an axis with no sensor attached issues no drive
\* command, neither run_at_speed nor brake: it leaves the motor undriven
\* where it stands and only presets its position to zero.
C16_ZeroWithoutSensor ==
    /\ [](ZeroCalledWithoutSensor
          => /\ drive[op.axis] = 0
             /\ \A i \in 1..Len(cmds) : cmds[i] = DeviceCmd(op.axis, "preset", 0)
             /\ pc = "returned"
                => /\ cmds = <<DeviceCmd(op.axis, "preset", 0)>>
                   /\ motor[op.axis].pos = 0)
    /\ [][(ZeroCalledWithoutSensor /\ pc = "cal_preset")
          => /\ motor'[op.axis].pos = 0
             /\ motor'[op.axis].target - motor'[op.axis].pos
                = motor[op.axis].target - motor[op.axis].pos
             /\ \A m \in Motors \ {op.axis} : motor'[m] = motor[m]]_vars

C16_Witness ==
    /\ ZeroCalledWithoutSensor
    /\ pc = "returned"
    /\ op.axis = "x"
    /\ op.first_color = X_ZERO_COLOR
    /\ cmds = <<DeviceCmd("x", "preset", 0)>>
    /\ motor["x"].pos = 0
    /\ abs_offset["x"] = TurnStep

\* A call of calibrate_zero on an axis that has its sensor.
ZeroCalledWithSensor ==
    /\ op.name = "calibrate"
    /\ op.caller = "calibrate_zero"
    /\ axis[op.axis].sensor

\* C17: as stated, calibrate_zero on an axis with a sensor drives the motor
\* only against the axis direction and never toward +direction.
C17_DrivenOnlyAgainstDirection ==
    ZeroCalledWithSensor
    => /\ drive[op.axis] * axis[op.axis].direction <= 0
       /\ \A i \in 1..Len(cmds) :
            cmds[i].cmd = "run_at_speed"
            => cmds[i].arg * axis[op.axis].direction < 0

\* C17, amended: calibrate_zero on an axis with a sensor drives the motor
\* against the axis direction until the sensor reports the first zero colour
\* and then, when a second zero colour is set, toward +direction until the
\* sensor reports that one; a started motor is braked when the colour is
\* read, and the position is preset to 0 only with the motor not driven,
\* every run_at_speed braked, and the last zero colour under the sensor.
C17_ZeroInTwoSteps ==
    [][(ZeroCalledWithSensor /\ Len(cmds') = Len(cmds) + 1)
       => LET a == op.axis
              last == cmds'[Len(cmds')]
              colors == axis[a].zero_colors
              sought == color_value(colors[op.phase])
              runs == {i \in 1..Len(cmds) : cmds[i].cmd = "run_at_speed"}
              brakes == {i \in 1..Len(cmds) : cmds[i].cmd = "brake"}
          IN  /\ last.motor = a
              /\ last.cmd \in {"run_at_speed", "brake", "preset"}
              /\ last.cmd = "run_at_speed"
                 => /\ drive[a] = 0
                    /\ sensor_color # sought
                    /\ last.arg = axis[a].speed
                                  * (IF op.phase = 1 THEN -axis[a].direction
                                                     ELSE axis[a].direction)
                    /\ op.phase = 2 => (Len(colors) = 2 /\ colors[2] # "0")
                    /\ drive'[a] = last.arg
              /\ last.cmd = "brake"
                 => /\ drive[a] # 0
                    /\ cmds[Len(cmds)].cmd = "run_at_speed"
                    /\ sensor_color = sought
                    /\ drive'[a] = 0
              /\ last.cmd = "preset"
                 => /\ last.arg = 0
                    /\ drive[a] = 0
                    /\ Cardinality(runs) = Cardinality(brakes)
                    /\ sensor_color = color_value(colors[Len(colors)])
                    /\ motor'[a].pos = 0]_vars

C17_Witness ==
    /\ ZeroCalledWithSensor
    /\ pc = "returned"
    /\ cmds = <<DeviceCmd("x", "run_at_speed", -X_SPEED),
                DeviceCmd("x", "brake", 0),
                DeviceCmd("x", "run_at_speed", X_SPEED),
                DeviceCmd("x", "brake", 0),
                DeviceCmd("x", "preset", 0)>>
    /\ sensor_color = color_value(X_ZERO_COLOR_2)

(***************************************************************************)
(* The polling loop, under SpecCalFair: the program goes on running, so a  *)
(* step of it that stays enabled is taken.                                 *)
(***************************************************************************)
\* The loop of _run_until_color is polling, its motor started.
Polling == pc = "ruc_poll"

\* The sensor reports the colour the running step looks for.
ColorRead == sensor_color = color_value(ruc_color(op))

\* C18: the polling loop of a calibration ends exactly by reading the colour
\* it looks for.  Once the motor is started, the loop is left only on that
\* reading, with the motor braked; a colour that stays under the sensor is
\* read and the loop left; and as long as the colour is not reported the loop
\* goes on polling with the motor running, no brake and no timeout.
C18_LoopEndsOnColor ==
    /\ [][(Polling /\ pc' # pc)
          => /\ ColorRead
             /\ drive[op.axis] # 0
             /\ drive'[op.axis] = 0
             /\ cmds' = Append(cmds, DeviceCmd(op.axis, "brake", 0))]_vars
    /\ [][(Polling /\ ~ColorRead)
          => /\ pc' = pc
             /\ op' = op
             /\ cmds' = cmds
             /\ drive' = drive
             /\ drive[op.axis] # 0
             /\ cmds[Len(cmds)].cmd = "run_at_speed"]_vars
    /\ (Polling /\ ColorRead) ~> (~Polling \/ ~ColorRead)

C18_Witness ==
    /\ pc = "returned"
    /\ op.name = "calibrate"
    /\ op.caller = "calibrate_end"
    /\ cmds = <<DeviceCmd("x", "run_at_speed", X_SPEED),
                DeviceCmd("x", "brake", 0)>>
    /\ sensor_color = color_value(X_END_COLOR)
    /\ axis["x"].end = Some(motor["x"].pos)
    /\ motor["x"].pos = 2 * TurnStep

C18_WitnessPolling ==
    /\ Polling
    /\ ~ColorRead
    /\ drive["x"] = X_SPEED
    /\ motor["x"].pos + TurnStep > PosBound

\* C20: after any sequence of operations on the axes, the length of an Axis
\* is None exactly when its end is None, and otherwise it is the end divided
\* by the current step, truncated to an integer.
C20_LengthFollowsEndAndStep ==
    \A a \in Axes :
        /\ (axis[a].length = None) <=> (axis[a].end = None)
        /\ EndKnown(a)
           => axis[a].length = Some(IntDiv(Val(axis[a].end), axis[a].step))

(***************************************************************************)
(* Claims about the header of the PBM file, under SpecHeader.              *)
(***************************************************************************)
\* picture_dimensions has been called, on a line of exactly two numbers.
TwoNumbers ==
    /\ pc = "header_done"
    /\ Len(range_call.entries) = 2
    /\ range_call.entries[1] # None
    /\ range_call.entries[2] # None

\* C21: picture_dimensions skips every leading line that begins with '#' and
\* returns the width and the height written on the first line after them,
\* when that line is exactly two positive integers.
C21_DimensionsAfterComments ==
    (/\ TwoNumbers
     /\ Val(range_call.entries[1]) >= 1
     /\ Val(range_call.entries[2]) >= 1)
    => Val(range_call.result) =
          [fpos |-> Len(range_call.comments) + 2,
           width |-> Val(range_call.entries[1]),
           height |-> Val(range_call.entries[2]),
           error |-> "none"]

C21_Witness ==
    /\ TwoNumbers
    /\ range_call.comments = <<CommentLine, <<"#", "4", " ", "3">>>>
    /\ range_call.entries = <<Some(4), Some(3)>>
    /\ picture[4] = <<"4", " ", "3">>
    /\ Val(range_call.result).width = 4
    /\ Val(range_call.result).height = 3

(***************************************************************************)
(* Claims about the pen, under SpecPrint.                                  *)
(***************************************************************************)
\* The absolute position of the pen motor once it is at relative position p.
PenAt(p) == (p + abs_offset["pen"]) % 360

\* pen.put_dot() is running.
InPutDot == pc \in {"put_down", "put_down_wait", "put_up_wait"}

\* C24: put_dot is put_down and put_up right after it.  The pen motor is
\* commanded to the drawing position and the call waits until the motor is
\* not busy; then the motor is commanded to the non-drawing position and the
\* call waits again; put_dot returns with the pen at the non-drawing
\* position, and no other motor is commanded in between.
C24_PutDotDownThenUp ==
    /\ [][(pc = "put_down" /\ pc' # pc)
          => /\ pc' = "put_down_wait"
             /\ Len(cmds') = Len(cmds) + 1
             /\ IsPen(cmds'[Len(cmds')])
             /\ PenAt(cmds'[Len(cmds')].arg) = PEN_DRAWS]_vars
    /\ [][(pc = "put_down_wait" /\ pc' # pc)
          => /\ ~motor["pen"].busy
             /\ PenAt(motor["pen"].pos) = PEN_DRAWS
             /\ pc' = "put_up_wait"
             /\ Len(cmds') = Len(cmds) + 1
             /\ IsPen(cmds'[Len(cmds')])
             /\ PenAt(cmds'[Len(cmds')].arg) = PEN_DOESNT_DRAW]_vars
    /\ [][(pc = "put_up_wait" /\ pc' # pc)
          => /\ ~motor["pen"].busy
             /\ PenAt(motor["pen"].pos) = PEN_DOESNT_DRAW
             /\ pc' = ret
             /\ cmds' = cmds
             /\ motor' = motor]_vars
    /\ [][InPutDot
          => /\ motor'["x"] = motor["x"]
             /\ motor'["y"] = motor["y"]
             /\ \A i \in (Len(cmds) + 1)..Len(cmds') : IsPen(cmds'[i])
             /\ pc' = pc => cmds' = cmds]_vars

C24_Witness ==
    /\ pc = "print_next"
    /\ Len(cmds) >= 3
    /\ IsX(cmds[Len(cmds) - 2])
    /\ cmds[Len(cmds) - 1] = Cmd("pen", PEN_DRAWS - PEN_DOESNT_DRAW)
    /\ cmds[Len(cmds)] = Cmd("pen", 0)
    /\ motor["pen"] = MotorIdle(0)
    /\ AbsolutePosition("pen") = PEN_DOESNT_DRAW

(***************************************************************************)
(* Claims about a print job that fails, under SpecPrint.                   *)
(***************************************************************************)
HeaderErrors == {"FormatError", "DimensionError"}

\* C22: picture_dimensions tells the header failures apart.  A first line
\* after the comments that is not exactly two integers (a token that is no
\* number, one token, three tokens, or the end of the file) fails with the
\* format error; a line of two integers with width < 1 or height < 1 fails
\* with the dimension error; and the print job that failed with either has
\* issued no motor command.
C22_HeaderFailures ==
    /\ [][(pc = "printing" /\ pc' # pc)
          => \A trial \in HeaderTrials :
               (picture \in HeaderTrialFiles /\ picture = TrialFile(trial))
               => LET entries == trial[2]
                      two == /\ Len(entries) = 2
                             /\ entries[1] # None
                             /\ entries[2] # None
                  IN  /\ ~two => (err' = "FormatError" /\ pc' = "failed")
                      /\ (two /\ (Val(entries[1]) < 1 \/ Val(entries[2]) < 1))
                         => (err' = "DimensionError" /\ pc' = "failed")
                      /\ (two /\ Val(entries[1]) >= 1 /\ Val(entries[2]) >= 1)
                         => err' \notin HeaderErrors]_vars
    /\ [](err \in HeaderErrors
          => /\ pc \in {"failed", "warned"}
             /\ cmds = << >>
             /\ \A m \in Motors : motor[m].target = 0 /\ motor[m].pos = 0)

C22_Witness ==
    /\ pc = "failed"
    /\ err = "DimensionError"
    /\ picture = <<MagicLine, CommentLine, <<"0", " ", "5">>>>
    /\ cmds = << >>

C22_WitnessFormat ==
    /\ pc = "failed"
    /\ err = "FormatError"
    /\ picture = <<MagicLine, <<"1", " ", "1", " ", "1">>>>
    /\ cmds = << >>

(***************************************************************************)
(* Claims about the rows of the picture, under SpecLines.                  *)
(***************************************************************************)
RECURSIVE Flatten(_)
Flatten(seqs) ==
    IF seqs = << >> THEN << >> ELSE Head(seqs) \o Flatten(Tail(seqs))

\* The number of cells on the first k raw lines (those there are).
RECURSIVE CellsOnLines(_, _, _)
CellsOnLines(n, wrap, k) ==
    IF k = 0 \/ n = 0 THEN 0
    ELSE Min(wrap[1], n)
         + CellsOnLines(n - Min(wrap[1], n), <<wrap[2], wrap[1]>>, k - 1)

ClockwiseTo(position) == (position - AbsolutePosition(op.motor)) % 360

\* C25: in 'shortest path' mode run_to_absolute_position commands, from
\* every absolute position to every position in 0..359, the relative
\* position plus a rotation delta that is congruent to position - absolute
\* position modulo 360 and is the smaller of the clockwise and the
\* counterclockwise rotation, so |delta| <= 180, and 0 at the position; it
\* returns only once the motor is not busy, at the position asked for.
C25_ShortestPath ==
    /\ [][(/\ pc = "run_to_absolute_position"
           /\ pc' # pc
           /\ op.direction = "shortest path"
           /\ op.position \in 0..359)
          => LET m == op.motor
                 delta == cmds'[Len(cmds')].arg - motor[m].pos
                 cw == ClockwiseTo(op.position)
             IN  /\ cmds' = <<Cmd(m, motor[m].pos + delta)>>
                 /\ motor'[m].target = motor[m].pos + delta
                 /\ delta \in {cw, cw - 360}
                 /\ Abs(delta) = Min(cw, 360 - cw)
                 /\ Abs(delta) <= 180
                 /\ (cw = 0) => (delta = 0)
                 /\ pc' = "rtap_wait"]_vars
    /\ [][(pc = "rtap_wait" /\ pc' # pc /\ op.direction = "shortest path")
          => /\ ~motor[op.motor].busy
             /\ AbsolutePosition(op.motor) = op.position
             /\ pc' = "returned"
             /\ cmds' = cmds]_vars

C25_Witness ==
    /\ pc = "returned"
    /\ op.name = "run_to_absolute_position"
    /\ op.direction = "shortest path"
    /\ op.position = PEN_DRAWS
    /\ cmds = <<Cmd("pen", 400 - 179)>>
    /\ motor["pen"] = MotorIdle(400 - 179)
    /\ AbsolutePosition("pen") = PEN_DRAWS

(***************************************************************************)
(* Claims about the end of a print job, under SpecPrint.                   *)
(***************************************************************************)
\* The rows of cells the picture holds after its header.
RowsOfPicture ==
    LET after == picture_dimensions(picture, 1).fpos
        text == Flatten(SubSeq(picture, after + 1, Len(picture)))
    IN  Len(RemoveSpaces(text)) \div picture_width

\* C26: a print job that has processed all its scanlines homes the axes.
\* The X axis and then the Y axis are each commanded to position 0, by one
\* command to the motor that does not wait and has no overshoot before it;
\* the job is done with these two commands as its last and with the pen at
\* rest at its non-drawing position; and no homing starts before the last
\* scanline has been processed.
C26_HomingWhenDone ==
    /\ [][(pc = "go_home" /\ pc' # pc)
          => /\ cmds' = Append(cmds, Cmd(op.axis, 0))
             /\ motor'[op.axis].target = 0
             /\ pc' = ret]_vars
    /\ [][(pc' = "go_home" /\ pc' # pc)
          => /\ err = "none"
             /\ lines_done = RowsOfPicture
             /\ pc = "print_home" => (op'.axis = "x" /\ ret' = "print_home_y")
             /\ pc = "print_home_y" => (op'.axis = "y" /\ ret' = "done")]_vars
    /\ [](pc = "done"
          => /\ Len(cmds) >= 2
             /\ cmds[Len(cmds) - 1] = Cmd("x", 0)
             /\ cmds[Len(cmds)] = Cmd("y", 0)
             /\ motor["x"].target = 0
             /\ motor["y"].target = 0
             /\ ~motor["pen"].busy
             /\ AbsolutePosition("pen") = PEN_DOESNT_DRAW)

C26_Witness ==
    /\ pc = "done"
    /\ lines_done = 2
    /\ Len(dots) >= 2
    /\ motor["x"].busy
    /\ motor["x"].pos > 0
    /\ motor["y"].busy
    /\ cmds[Len(cmds) - 2] = Cmd("pen", 0)

(***************************************************************************)
(* Claims about the main program and a failed job, under SpecPrint.        *)
(***************************************************************************)
\* The errors of the picture and of the axis that end a print job.
JobErrors == {"FormatError", "DimensionError", "WidthExceeded",
              "LimitViolation"}

\* C27: a print job that fails is aborted and not tried again.  From the
\* error on, no command goes to the motor of an axis or of the pen (there
\* is no homing) and the target of every motor is the one it had, so the
\* carriage stays where it was last commanded; and the error reaches the
\* main program, which shows it: the next step of the program after the
\* error is the warning with the text of just this error.
C27_FailedJobAborted ==
    /\ [][(pc \in {"failed", "warned"})
          => /\ cmds' = cmds
             /\ \A m \in Motors : motor'[m].target = motor[m].target
             /\ pc' \notin {"go_home", "print_home", "print_home_y"}]_vars
    /\ [][(pc = "failed" /\ pc' # pc)
          => /\ pc' = "warned"
             /\ err' = err
             /\ \E w \in warnings' : w[2] = error_text(err)
             /\ err \in JobErrors]_vars
    /\ [][(pc' = "failed" /\ pc' # pc) => err' \in JobErrors]_vars

C27_Witness ==
    /\ pc = "warned"
    /\ err = "WidthExceeded"
    /\ picture = <<MagicLine, CommentLine, HeaderLine(3, 2),
                   <<"1", "0", "1">>, <<"0", "1", "0">>>>
    /\ <<"WIDTH ERROR", "Picture is too width">> \in warnings
    /\ motor["y"].busy
    /\ cmds = << >>

C27_WitnessLimit ==
    /\ pc = "warned"
    /\ err = "LimitViolation"
    /\ op.name = "move_steps"
    /\ lines_done = 1
    /\ Len(cmds) = 3
    /\ cmds[1] = Cmd("x", 0)
    /\ IsPen(cmds[3])
    /\ <<"ANOTHER ERROR", "Target position">> \in warnings

\* The error name the main program has for each error of a print job.
NameShownFor(e) ==
    CASE e = "WidthExceeded" -> "WIDTH ERROR"
      [] e = "FormatError" -> "INVALID FILE"
      [] e = "DimensionError" -> "INVALID FILE"
      [] e = "LimitViolation" -> "ANOTHER ERROR"

\* C28 as stated: the main program shows a different error name for each
\* error case of a print job, so two warnings for different errors never
\* carry the same name.
C28_DistinctNamePerCase ==
    \A v, w \in warnings : v[2] # w[2] => v[1] # w[1]

\* C28, amended: the main program shows an error name and after it the text
\* of the error.  The name is WIDTH ERROR for a picture that is too wide,
\* INVALID FILE for the format error and for the dimension error alike, and
\* ANOTHER ERROR for a limit violation; two warnings of the same name are
\* the format and the dimension error, which only the text after the name
\* tells apart.
C28_NamesShown ==
    /\ [][(pc = "failed" /\ pc' # pc)
          => warnings' =
               warnings \cup {<<NameShownFor(err), error_text(err)>>}]_vars
    /\ [](\A e \in JobErrors : error_name(error_text(e)) = NameShownFor(e))
    /\ [](\A v, w \in warnings :
            (v # w /\ v[1] = w[1])
            => /\ v[1] = "INVALID FILE"
               /\ {v[2], w[2]} = {error_text("FormatError"),
                                  error_text("DimensionError")})

C28_Witness ==
    /\ pc = "warned"
    /\ err = "DimensionError"
    /\ warnings =
         {<<"INVALID FILE", "Expected picture dimensions after comments">>,
          <<"INVALID FILE", "Picture dimensions cannot be negative or 0">>,
          <<"WIDTH ERROR", "Picture is too width">>}

(***************************************************************************)
(* Claims about the arguments that are rejected, under SpecConfig.         *)
(***************************************************************************)
\* The call that runs is refused: ValueError, and nothing else happens.
Rejected ==
    /\ err' = "ValueError"
    /\ pc' = "returned"
    /\ cmds' = << >>
    /\ cmds = << >>
    /\ motor' = motor
    /\ axis' = axis

\* C29: values that are no valid configuration are rejected with
\* ValueError before any motor command.  Making an Axis with a direction
\* other than -1 and 1, run_to_position with a mode other than 'degrees'
\* and 'steps', and run_to_absolute_position with a position outside
\* 0..359 or with a direction that is none of the three known, each end
\* with ValueError, no command issued, no motor and no Axis changed; and
\* the valid values are not refused so.
C29_InvalidConfigurationRejected ==
    /\ [][(pc = "__init__" /\ pc' # pc)
          => IF op.direction \in {-1, 1}
             THEN err' = "none" /\ axis'[op.axis].direction = op.direction
             ELSE Rejected]_vars
    /\ [][(pc = "run_to_position" /\ pc' # pc)
          => IF op.mode \in {"degrees", "steps"}
             THEN err' # "ValueError"
             ELSE Rejected]_vars
    /\ [][(pc = "run_to_absolute_position" /\ pc' # pc)
          => IF /\ 0 <= op.position
                /\ op.position <= 359
                /\ op.direction \in {"shortest path", "clockwise",
                                      "counterclockwise"}
             THEN err' = "none" /\ Len(cmds') = 1
             ELSE Rejected]_vars

C29_Witness ==
    /\ pc = "returned"
    /\ err = "ValueError"
    /\ op.name = "run_to_absolute_position"
    /\ op.position = 360
    /\ op.direction = "clockwise"
    /\ motor["pen"].pos # 0
    /\ axis[TestAxis].direction = -1
    /\ motor[TestAxis].pos # 0
    /\ cmds = << >>

C29_WitnessMode ==
    /\ pc = "returned"
    /\ err = "ValueError"
    /\ op.name = "run_to_position"
    /\ op.mode = "dots"
    /\ cmds = << >>

C29_WitnessDirection ==
    /\ pc = "returned"
    /\ err = "ValueError"
    /\ op.name = "__init__"
    /\ op.direction = 0
    /\ cmds = << >>

(***************************************************************************)
(* Claims about the step computation, under SpecStep.                      *)
(***************************************************************************)
\* C30: the step round(360 * distance * gear_ratio / (pi * wheel_diameter))
\* does not decrease when the distance grows, the gear ratio and the wheel
\* diameter being the same and positive, and it is 0 for the distance 0.
C30_StepMonotonic ==
    LET result == range_call.result
    IN  /\ range_call.gear_ratio > 0
        /\ range_call.wheel_diameter > 0
        /\ \A i, k \in 1..Len(result) :
             result[i][1] <= result[k][1] => result[i][2] <= result[k][2]
        /\ \A i \in 1..Len(result) : result[i][1] = 0 => result[i][2] = 0

C30_Witness ==
    /\ range_call.gear_ratio = X_GEAR_RATIO
    /\ range_call.wheel_diameter = X_WHEEL_DIAMETER
    /\ range_call.result = <<<<DistanceScale, 38>>, <<0, 0>>>>

C30_WitnessHalfDot ==
    /\ range_call.gear_ratio = Y_GEAR_RATIO
    /\ range_call.wheel_diameter = Y_WHEEL_DIAMETER
    /\ Len(range_call.result) = 2
    /\ range_call.result[1][1] = -1
    /\ range_call.result[1][2] < 0
    /\ 2 * range_call.result[2][1] = DistanceScale
    /\ range_call.result[2][2] = 25

(***************************************************************************)
(* Claims about the whole print job, under SpecPrint.                      *)
(***************************************************************************)
\* C31: the width check is enough for the whole job.  On an X axis with a
\* known end > 0 and a step > 0, every X move of the print loop of a picture
\* that passed the check width <= x_axis.length is to a column j of
\* 0..width-1 in steps, its target step * j is within [0, end], and the
\* call raises no limit violation.
C31_WidthCheckSuffices ==
    /\ [][(pc = "run_to_position" /\ pc' # pc)
          => LET x_axis == axis["x"]
                 target == x_axis.step * op.position
             IN  /\ op.axis = "x"
                 /\ op.mode = "steps"
                 /\ Val(x_axis.end) > 0
                 /\ x_axis.step > 0
                 /\ picture_width <= Val(x_axis.length)
                 /\ op.position \in 0..(picture_width - 1)
                 /\ 0 <= target
                 /\ target <= Val(x_axis.end)
                 /\ err' = "none"
                 /\ Len(cmds') > Len(cmds)
                 /\ cmds'[Len(cmds')].motor = "x"]_vars
    /\ [](err = "LimitViolation" => op.axis # "x")

C31_Witness ==
    /\ pc = "print_put_dot"
    /\ picture_width = 3
    /\ axis["x"].length = Some(3)
    /\ op.position = 2
    /\ motor["x"].pos = 2 * axis["x"].step
    /\ err = "none"

C31_WitnessNarrow ==
    /\ pc = "print_put_dot"
    /\ picture_width = 1
    /\ axis["x"].length = Some(1)
    /\ lines_done = 1
    /\ err = "none"

(***************************************************************************)
(* Claims about the main program, under SpecMain.                          *)
(***************************************************************************)
\* The commands to the pen motor among the first n commands.
PenCmds(n) == SelectSeq(SubSeq(cmds, 1, n), IsPen)

\* The last move of the pen is completed and was to the non-drawing position.
PenIsUp ==
    /\ ~motor["pen"].busy
    /\ AbsolutePosition("pen") = PEN_DOESNT_DRAW
    /\ PenCmds(Len(cmds)) # << >>
    /\ LET moves == PenCmds(Len(cmds))
       IN  PenAt(moves[Len(moves)].arg) = PEN_DOESNT_DRAW

\* C32: from the start of calibration to the end of the print job, every
\* command to the X or the Y motor is issued with the pen up: the last move
\* of the pen is completed and was to the non-drawing position.
\* calibration() raises the pen before it commands an axis, and after that
\* the pen is away from the non-drawing position only inside put_dot, where
\* no axis is commanded.
C32_AxesMoveWithPenUp ==
    /\ [][\A i \in (Len(cmds) + 1)..Len(cmds') :
            cmds'[i].motor \in Axes => PenIsUp]_vars
    /\ []((cmds # << >> /\ PenAt(motor["pen"].target) # PEN_DOESNT_DRAW)
          => (pc = "put_down_wait" /\ PenAt(motor["pen"].target) = PEN_DRAWS))
    /\ [][(InPutDot \/ pc \in {"run_to_absolute_position", "rtap_wait"})
          => \A i \in (Len(cmds) + 1)..Len(cmds') : IsPen(cmds'[i])]_vars

C32_Witness ==
    /\ pc = "done"
    /\ abs_offset["pen"] = PEN_DRAWS
    /\ cmds[1] = Cmd("pen", PEN_DOESNT_DRAW - PEN_DRAWS)
    /\ cmds[2] = DeviceCmd("y", "preset", 0)
    /\ \E i \in 1..Len(cmds) : cmds[i].cmd = "run_at_speed"
    /\ Len(dots) = 3
    /\ lines_done = 2

\* The scanline in hand is complete and has no marked cell.
NoMarkedCell ==
    /\ Len(line) = picture_width
    /\ \A i \in 1..Len(line) : line[i] # "1"

C34_EndOnlyAtEndOfFile ==
    pc = "lines_done"
    => /\ fpos > Len(picture)
       /\ \A i \in 1..Len(range_call.cells) :
            /\ i <= Len(range_call.rows) - 1
            /\ range_call.rows[i] = range_call.cells[i]

(***************************************************************************)
(* Claims about the lifetime of an Axis, under SpecCal.                    *)
(***************************************************************************)
\* The step makes the axes anew: the lifetime of the Axis objects ends.
Constructed == op'.name = "construct" /\ op.name # "construct"

\* C35: the end of an Axis is written once. Once it is known, loaded from
\* settings.txt when the Axis is made or set by its first calibrate_end, no
\* step of the lifetime of the Axis changes it; settings.txt is written only
\* by the calibrate_end that finds the end of an Axis that had none, so at
\* most once in the lifetime of an Axis.
C35_EndWrittenOnce ==
    /\ [][\A a \in Axes :
            (axis[a].end # None /\ ~Constructed)
            => axis'[a].end = axis[a].end]_vars
    /\ [][(settings' # settings \/ stored_by' # stored_by)
          => pc = "calibrate_end_store"]_vars
    /\ [][(pc = "calibrate_end_store" /\ pc' # pc)
          => /\ axis[op.axis].end = None
             /\ axis'[op.axis].end # None
             /\ settings' = settings_written(Val(axis'[op.axis].end))
             /\ \A a \in Axes \ {op.axis} : axis'[a].end = axis[a].end]_vars
    /\ [][\A a \in Axes :
            (axis'[a].end # axis[a].end /\ ~Constructed)
            => (pc = "calibrate_end_store" /\ op.axis = a)]_vars

C35_Witness ==
    /\ pc = "returned"
    /\ op.name = "calibrate_end"
    /\ op.axis = "x"
    /\ axis["x"].end = Some(2 * TurnStep)
    /\ op.value = axis["x"].end
    /\ stored_by = "x"
    /\ settings = settings_written(2 * TurnStep)
    /\ motor["x"].pos = 0

(***************************************************************************)
(* Claims about the termination of a print job, under SpecPrintFair.       *)
(***************************************************************************)
\* The cells of the picture after its header, in the order of the file.
CellsOfPicture ==
    LET after == picture_dimensions(picture, 1).fpos
    IN  RemoveSpaces(Flatten(SubSeq(picture, after + 1, Len(picture))))

\* The cells not yet given out by get_line: the remainder and the cells of
\* the raw lines not yet read.
Unread ==
    Len(rest_of_line)
    + Len(RemoveSpaces(Flatten(SubSeq(picture, fpos + 1, Len(picture)))))

\* C36: a print job over a finite file terminates, given that the program
\* goes on running and every motor commanded to a position comes to report
\* not busy: it gets to done, with both axes sent home after the last row,
\* or to failed, with an error raised. Every turn of the loop takes one row
\* of width cells from the input, the row after the one before, and each
\* row is counted once.
C36_JobTerminates ==
    /\ (pc = "printing") ~> (pc \in {"done", "failed"})
    /\ [](pc = "done"
          => /\ err = "none"
             /\ lines_done = RowsOfPicture
             /\ motor["x"].target = 0
             /\ motor["y"].target = 0)
    /\ [](pc = "failed" => err # "none")
    /\ [][(pc = "print_line" /\ pc' = "print_wait_y")
          => /\ picture_width > 0
             /\ Unread' = Unread - picture_width
             /\ line' = SubSeq(CellsOfPicture,
                               lines_done * picture_width + 1,
                               (lines_done + 1) * picture_width)]_vars
    /\ [][(lines_done' # lines_done /\ pc # "warned")
          => (pc = "print_advance" /\ lines_done' = lines_done + 1
              /\ lines_done' <= RowsOfPicture)]_vars

C36_Witness ==
    /\ pc = "done"
    /\ lines_done = 2
    /\ picture_width = 2
    /\ Len(picture) = 3
    /\ Len(dots) = 4
    /\ rest_of_line = << >>
    /\ fpos = Len(picture) + 1

C36_WitnessFailed ==
    /\ pc = "failed"
    /\ err = "LimitViolation"
    /\ lines_done = 1
    /\ Unread > 0

====
